---- MODULE Spec2Model ----
(***************************************************************************)
(* TurboProcess supervision engine: ProcessManager (start / stop /         *)
(* restart / delete, child exit handler), RestartManager, ResourceMonitor, *)
(* WatchManager (debounce) and the IPC server's per-connection handler.    *)
(*                                                                         *)
(* Every async function of the source is a task: a record whose pc names   *)
(* the await it is suspended at.  One step of the model runs a task from   *)
(* one suspension point to the next, as one turn of the Node event loop    *)
(* does.  An await of a promise that needs no I/O (await spawnProcess(),   *)
(* await handleExit() returning without sleep) continues in the same step. *)
(***************************************************************************)
EXTENDS Integers, Sequences, FiniteSets, TLC

\* ---------------------------------------------------------------- bounds
MaxIds == 2          \* ids generateId() hands out in the interleaving model
MaxOps == 2          \* commands plus background events in the interleaving model
MaxBatch == 2        \* complete messages carried by one 'data' event
MaxChain == 7        \* children of one automatic-restart chain (timed model)
RunCap == 6          \* runs of samples are counted up to this number
MaxSaves == 2        \* calls of saveStateNow running at a time (snapshot model)
MaxBoots == 2        \* times the daemon is booted (snapshot model)
MaxOutput == 80      \* MiB of output one child writes (log model)
MaxClock == 2000     \* the watcher's clock stops here, in ms (timed watcher model)

\* ------------------------------------------------------ program constants
DEFAULT_RESTART_DELAY == 1000      \* DEFAULT_PROCESS_CONFIG.restartDelay
DEFAULT_MAX_RESTARTS == 10         \* DEFAULT_PROCESS_CONFIG.maxRestarts
DEFAULT_MAX_DELAY == 30000         \* DEFAULT_RESTART_POLICY.maxDelay
CRASH_LOOP_THRESHOLD == 5
CRASH_LOOP_WINDOW == 60
WATCH_DEBOUNCE_DELAY == 500
MEMORY_CHECK_CONSECUTIVE == 3
CPU_CHECK_CONSECUTIVE == 5
CPU_ROLLING_AVERAGE_SAMPLES == 3
LOG_MAX_SIZE == 10485760        \* 10 * 1024 * 1024 bytes
LOG_MAX_FILES == 5

VARIABLES
  registry,      \* ProcessRegistry.processes: the ids held in the map
  info,          \* the ProcessInfo objects, by id (they outlive the registry entry)
  processes,     \* ProcessManager.processes: ids that map to a ChildProcess
  children,      \* the child OS processes spawned so far, by id
  nextId,        \* generateId(): ids are fresh, modelled as a counter
  states,        \* RestartManager.states and .policies, by id
  monitors,      \* ResourceMonitor.monitors, by id
  watchers,      \* WatchManager.watchers: ids with an open watcher
  timers,        \* pending debounce timeouts: id -> time at which it fires
  tasks,         \* async activations in flight (commands and event handlers)
  nextSeq,       \* arrival number of the next command or background event
  received,      \* requests received on the connection so far
  replies,       \* replies written to the connection, in write order
  emitted,       \* events emitted by RestartManager
  hist,          \* history, by id: what created the entry, its restart chain
  failedStarts,  \* history: ids whose startProcess threw after registry.add
  bursts,        \* history, by id: the current burst of watcher events
  polls,         \* history, by id: the runs of samples the monitor has seen
  journal,       \* CrashReporter's files, by id, and the order of the exit handler
  logs,          \* LogManager: by id, the stream and the files of the log directory
  disk,          \* StateManager's files: state.json, state.json.tmp, state.json.backup
  daemon,        \* the Daemon: running or not, its pending save timeout
  now,           \* Date.now(), in ms
  decided,       \* history: the last direct call of RestartManager.handleExit
  launch,        \* the daemons being launched on the data directory, its pid
                 \* file and its socket
  conn,          \* one connection of the IPCServer: the bytes still to arrive,
                 \* the handler's buffer, the messages handled, the replies
  health,        \* one call of HealthChecker.waitForHealthy: its locals and
                 \* the probes it has made
  logread        \* one call of LogManager.streamLogs: the log path of the id,
                 \* the file's content, the argument and the value returned

vars == <<registry, info, processes, children, nextId, states, monitors, watchers,
          timers, tasks, nextSeq, received, replies, emitted, hist, failedStarts,
          bursts, polls, journal, logs, disk, daemon, now, decided, launch, conn, health, logread>>

\* two daemon processes not yet launched, no daemon.pid, no socket file
\* pidFile: 0 = no file, -1 = an empty file, d = the pid of daemon d,
\* StalePid = the pid of a process that is gone; socket: 0 = no file, d = the
\* socket daemon d is bound to; seen: the pid a daemon has read from the file
Daemons == {1, 2}
StalePid == 3
NoLaunch ==
  [pc |-> [d \in Daemons |-> "idle"], seen |-> [d \in Daemons |-> 0],
   pidFile |-> 0, socket |-> 0]

\* a connection on which the client sends the bytes of `stream`
Connection(stream) ==
  [stream |-> stream, rest |-> stream, buffer |-> <<>>, lines |-> <<>>,
   written |-> <<>>]
NoConn == Connection(<<>>)

\* no call of handleExit yet
NoCall == [id |-> 0]

\* no call of waitForHealthy yet; probes: for each probe made, the time it
\* was started at, the time it resolved at and the status code it saw
\* (0: the request failed or timed out)
NoHealth ==
  [pc |-> "idle", timeout |-> 0, startTime |-> 0, attempts |-> 0,
   probes |-> <<>>, returned |-> "none"]

\* no call of streamLogs yet; path: logPaths has the id; readable: readFile
\* succeeds; content: the characters of app.log
NoRead ==
  [pc |-> "idle", path |-> FALSE, readable |-> FALSE, content |-> <<>>,
   lines |-> 0, returned |-> <<>>]

\* ------------------------------------------------------------- helpers
Min(a, b) == IF a < b THEN a ELSE b

RECURSIVE Pow2(_)
Pow2(n) == IF n = 0 THEN 1 ELSE 2 * Pow2(n - 1)

RECURSIVE SelectSeqBy(_, _)
\* Array.prototype.filter with the crash-window predicate
SelectSeqBy(s, t) ==
  IF s = <<>> THEN <<>>
  ELSE IF t - Head(s) < CRASH_LOOP_WINDOW * 1000
       THEN <<Head(s)>> \o SelectSeqBy(Tail(s), t)
       ELSE SelectSeqBy(Tail(s), t)

Drop(f, k) == [x \in (DOMAIN f) \ {k} |-> f[x]]

RECURSIVE Sum(_)
Sum(s) == IF s = <<>> THEN 0 ELSE Head(s) + Sum(Tail(s))

\* a file that does not exist
Absent == [kind |-> "absent"]

\* ------------------------------------------------------------- configs
\* memoryLimit: 0 = not given, -1 = a string parseMemoryLimit rejects, else bytes
\* maxRestarts, restartDelay: the values after DEFAULT_PROCESS_CONFIG is applied
NoCfg ==
  [name |-> "", watch |-> FALSE, memoryLimit |-> 0, cpuLimit |-> 0,
   maxRestarts |-> DEFAULT_MAX_RESTARTS, restartDelay |-> DEFAULT_RESTART_DELAY]
CfgPlain == [NoCfg EXCEPT !.name = "api"]
CfgWatch ==
  [NoCfg EXCEPT !.name = "web", !.watch = TRUE, !.memoryLimit = 64, !.cpuLimit = 50]
CfgBadMem == [NoCfg EXCEPT !.name = "job", !.memoryLimit = -1]
Configs == {CfgPlain, CfgWatch, CfgBadMem}

ExitCodes == {"ok", "fail", "signal"}   \* code 0 / code # 0 / killed by a signal

CommandKinds == {"ping", "status", "start", "stop", "restart", "delete", "save"}
RestartKinds == {"restart", "memory", "cpu", "change"}   \* callers of restartProcess
BackgroundKinds == {"memory", "cpu", "change", "exit"}

\* the requests a client can send when the ids 1..k have been handed out
Commands(k) ==
  {[action |-> a, target |-> 0, cfg |-> NoCfg] : a \in {"ping", "status"}}
  \cup {[action |-> "start", target |-> 0, cfg |-> c] : c \in Configs}
  \cup {[action |-> a, target |-> i, cfg |-> NoCfg] :
          a \in {"stop", "restart", "delete"}, i \in 1..k}

\* the n complete messages of one 'data' event
Batches(n, k) == [1..n -> Commands(k)]

\* ---------------------------------------------------------------- tasks
NewTask(seq, kind, pc, id, req, rest) ==
  [seq |-> seq, kind |-> kind, pc |-> pc, id |-> id, nid |-> 0, cfg |-> NoCfg,
   rc |-> 0, req |-> req, rest |-> rest, due |-> 0, fd |-> "none", text |-> Absent,
   procs |-> <<>>, tname |-> ""]

\* (a command names its target by id, `target`, or by a string, `name`: the
\* name of an entry or the word "all")
CmdTask(cmd, seq, req, rest) ==
  [NewTask(seq, cmd.action, "dispatch", cmd.target, req, rest)
     EXCEPT !.cfg = cmd.cfg,
            !.tname = IF "name" \in DOMAIN cmd THEN cmd.name ELSE ""]

IsCommand(t) == t.req # 0
IsBackground(t) == t.kind \in BackgroundKinds

\* ProcessInfo fields as restoreState reads them from a parsed entry: a key
\* the JSON text does not have reads as undefined
Undefined == "none"
Get(o, k) == IF k \in DOMAIN o THEN o[k] ELSE Undefined

ReviveConfig(o) ==
  [name |-> o.name, watch |-> o.watch,
   memoryLimit |-> IF "memoryLimit" \in DOMAIN o THEN o.memoryLimit ELSE 0,
   cpuLimit |-> IF "cpuLimit" \in DOMAIN o THEN o.cpuLimit ELSE 0,
   maxRestarts |-> IF "maxRestarts" \in DOMAIN o THEN o.maxRestarts
                   ELSE DEFAULT_MAX_RESTARTS,
   restartDelay |-> IF "restartDelay" \in DOMAIN o THEN o.restartDelay
                    ELSE DEFAULT_RESTART_DELAY]

\* (a number that is undefined is written -1)
Revive(o) ==
  [id |-> o.id, name |-> o.name, pid |-> o.pid, status |-> o.status,
   restartCount |-> IF "restartCount" \in DOMAIN o THEN o.restartCount ELSE -1,
   lastRestartReason |-> Get(o, "lastRestartReason"),
   config |-> ReviveConfig(o.config)]

\* Daemon.restoreState's for loop from its entry `procs`: entries that are not
\* 'running' are passed over, the first running one is started from its config
\* (startProcess up to its await fileExists()) and awaited; rc keeps, as
\* history, the restartCount the entry was saved with.
RECURSIVE RestoreLoop(_, _)
RestoreLoop(seq, procs) ==
  IF procs = <<>> THEN {}
  ELSE IF Get(Head(procs), "status") # "running" THEN RestoreLoop(seq, Tail(procs))
  ELSE {[seq |-> seq, kind |-> "restore", pc |-> "start_fe", id |-> 0, nid |-> 0,
         cfg |-> ReviveConfig(Head(procs).config),
         rc |-> Revive(Head(procs)).restartCount, req |-> 0, rest |-> <<>>,
         due |-> 0, fd |-> "none", text |-> Absent, procs |-> Tail(procs),
         tname |-> ""]}

\* handleMessage: the reply is written when the command handler's promise settles;
\* handleConnection's for loop then awaits the next message of the same data event.
Finish(t, ok) ==
  /\ tasks' = (tasks \ {t}) \cup
       (IF IsCommand(t) /\ t.rest # <<>>
        THEN {CmdTask(Head(t.rest), t.seq + 1, t.req + 1, Tail(t.rest))}
        ELSE IF t.kind = "restore"
        THEN RestoreLoop(t.seq, t.procs)
        ELSE {})
  /\ replies' = IF IsCommand(t)
                THEN Append(replies, [req |-> t.req, success |-> ok,
                                      action |-> t.kind, target |-> t.id,
                                      name |-> t.tname])
                ELSE replies

Suspend(t, t2) ==
  /\ tasks' = (tasks \ {t}) \cup {t2}
  /\ replies' = replies

\* no snapshot has been written yet
NoFiles == [state |-> Absent, tmp |-> Absent, backup |-> Absent]

\* -------------------------------------------------------------- Init
Init ==
  /\ registry = {}
  /\ info = <<>>
  /\ processes = {}
  /\ children = <<>>
  /\ nextId = 1
  /\ states = <<>>
  /\ monitors = <<>>
  /\ watchers = {}
  /\ timers = <<>>
  /\ tasks = {}
  /\ nextSeq = 1
  /\ received = 0
  /\ replies = <<>>
  /\ emitted = {}
  /\ hist = <<>>
  /\ failedStarts = {}
  /\ bursts = <<>>
  /\ polls = <<>>
  /\ journal = <<>>
  /\ logs = <<>>
  /\ disk = NoFiles
  /\ daemon = [up |-> TRUE, saveTimer |-> FALSE, boots |-> 1]
  /\ now = 0
  /\ decided = NoCall
  /\ launch = NoLaunch
  /\ conn = NoConn
  /\ health = NoHealth
  /\ logread = NoRead

\* ------------------------------------------------------- RestartManager
\* (mutant) a backoff that is not capped by maxDelay
calculateBackoffUncapped(attempt, minDelay, maxDelay) == minDelay * Pow2(attempt)

\* calculateBackoffDelay(attempt, minDelay, maxDelay)
calculateBackoffDelay(attempt, minDelay, maxDelay) ==
  Min(minDelay * Pow2(attempt), maxDelay)

\* RestartManager.register: policy defaults overlaid by the config's values
register(st, id, cfg) ==
  (id :> [attempts |-> 0, crashes |-> <<>>, lastRestartTime |-> 0,
          inCrashLoop |-> FALSE, maxRestarts |-> cfg.maxRestarts,
          minDelay |-> cfg.restartDelay, maxDelay |-> DEFAULT_MAX_DELAY]) @@ st

\* (mutant) a reset that also purges the crash times
resetAttemptsPurges(st, id) ==
  IF id \in DOMAIN st
  THEN [st EXCEPT ![id].attempts = 0, ![id].inCrashLoop = FALSE, ![id].crashes = <<>>]
  ELSE st

\* RestartManager.resetAttempts
resetAttempts(st, id) ==
  IF id \in DOMAIN st
  THEN [st EXCEPT ![id].attempts = 0, ![id].inCrashLoop = FALSE]
  ELSE st

Event(type, id, attempt, delay) ==
  [type |-> type, id |-> id, attempt |-> attempt, delay |-> delay]

\* RestartManager.handleExit up to its await sleep(delay): the new states map,
\* whether the restart is granted, the delay slept and the events emitted.
handleExit(st, id, clean, time) ==
  IF id \notin DOMAIN st
  THEN [st |-> st, grant |-> FALSE, delay |-> 0, ev |-> {}]
  ELSE LET s == st[id]
           cr == SelectSeqBy(Append(s.crashes, time), time)
       IN IF Len(cr) >= CRASH_LOOP_THRESHOLD
          THEN [st |-> [st EXCEPT ![id].crashes = cr, ![id].inCrashLoop = TRUE],
                grant |-> FALSE, delay |-> 0,
                ev |-> {Event("crash-loop", id, Len(cr), 0)}]
          ELSE IF s.attempts >= s.maxRestarts
          THEN [st |-> [st EXCEPT ![id].crashes = cr],
                grant |-> FALSE, delay |-> 0,
                ev |-> {Event("max-restarts", id, s.attempts, 0)}]
          ELSE IF clean
          THEN [st |-> [st EXCEPT ![id].crashes = cr],
                grant |-> FALSE, delay |-> 0, ev |-> {}]
          ELSE LET d == calculateBackoffDelay(s.attempts, s.minDelay, s.maxDelay)
               IN [st |-> [st EXCEPT ![id].crashes = cr,
                                     ![id].attempts = s.attempts + 1,
                                     ![id].lastRestartTime = time],
                   grant |-> TRUE, delay |-> d,
                   ev |-> {Event("restart-scheduled", id, s.attempts + 1, d)}]

\* ------------------------------------------------------------ LogManager
\* The log directory of an entry: files[0] is app.log, files[n] is app.log.n;
\* 0 stands for a file that does not exist, g > 0 for the g-th app.log that was
\* created in the directory.  size is the size of app.log in bytes.
\* stream: "open", "ended" (stream.end() was called, the map still holds it),
\* "none" (no stream in the map).  History: created, the app.log files created
\* so far; produced, the bytes the child has written; rotations.
NewLog ==
  [stream |-> "open", files |-> [n \in 0..LOG_MAX_FILES |-> IF n = 0 THEN 1 ELSE 0],
   size |-> 0, created |-> 1, produced |-> 0, rotations |-> 0]

\* LogManager.attachToProcess after ensureDir: createWriteStream(app.log, 'a')
attachToProcess(lg, id) ==
  IF id \notin DOMAIN lg THEN (id :> NewLog) @@ lg
  ELSE IF lg[id].files[0] # 0 THEN [lg EXCEPT ![id].stream = "open"]
  ELSE [lg EXCEPT ![id].stream = "open", ![id].files[0] = lg[id].created + 1,
                  ![id].created = @ + 1]

\* LogManager.detach: stream.end(), streams.delete
detach(lg, id) ==
  IF id \in DOMAIN lg THEN [lg EXCEPT ![id].stream = "none"] ELSE lg

\* fs rename(a, b) inside try / catch: nothing happens when a does not exist
Rename(f, a, b) == IF f[a] = 0 THEN f ELSE [f EXCEPT ![b] = f[a], ![a] = 0]

\* rotateLogs' loop: oldPath = i === 1 ? logPath : `${logPath}.${i}`
OldPath(i) == IF i = 1 THEN 0 ELSE i

RECURSIVE RotateLoop(_, _)
\* for (i = LOG_MAX_FILES - 1; i >= 1; i--) rename(oldPath, `${logPath}.${i + 1}`)
RotateLoop(f, i) ==
  IF i < 1 THEN f ELSE RotateLoop(Rename(f, OldPath(i), i + 1), i - 1)

\* LogManager.rotateLogs, its renames taken in one step: stream.end(), the
\* loop, unlink of app.log.5, rename of app.log to app.log.1 and, only when
\* that rename succeeded, a new stream on a fresh app.log
rotateLogs(l) ==
  LET looped == RotateLoop(l.files, LOG_MAX_FILES - 1)
      unlinked == [looped EXCEPT ![LOG_MAX_FILES] = 0]
  IN IF unlinked[0] = 0
     THEN [l EXCEPT !.stream = "ended", !.files = unlinked, !.size = 0,
                    !.rotations = @ + 1]
     ELSE [l EXCEPT !.stream = "open",
                    !.files = [Rename(unlinked, 0, 1) EXCEPT ![0] = l.created + 1],
                    !.size = 0, !.created = @ + 1, !.rotations = @ + 1]

\* LogManager.writeLog for a chunk of n bytes: stream.write, then checkRotation
\* (statSync(app.log).size >= LOG_MAX_SIZE).  Without an open stream nothing
\* is written.
writeLog(l, n) ==
  IF l.stream # "open"
  THEN [l EXCEPT !.produced = @ + n]
  ELSE LET w == [l EXCEPT !.size = @ + n, !.produced = @ + n]
       IN IF w.size >= LOG_MAX_SIZE THEN rotateLogs(w) ELSE w

\* ------------------------------------------------------- ResourceMonitor
\* ResourceMonitor.startMonitoring: the MonitorState it stores
NewMonitor(pid, cfg) ==
  [pid |-> pid, memoryLimit |-> cfg.memoryLimit, cpuLimit |-> cfg.cpuLimit,
   cpuSamples |-> <<>>, memoryExceededCount |-> 0, cpuExceededCount |-> 0]

\* cpuSamples.push(cpu), then shift() when the window is over its size
Shifted(s) == IF Len(s) > CPU_ROLLING_AVERAGE_SAMPLES THEN Tail(s) ELSE s

\* avgCpu >= cpuLimit with avgCpu = sum / length, compared without the division
AvgAtLeast(samples, limit) == Sum(samples) >= limit * Len(samples)

\* (mutant) a counter that fires one sample early
ReachedEarly(count, needed) == count >= needed - 1

\* state.memoryExceededCount >= MEMORY_CHECK_CONSECUTIVE, and the same for cpu
Reached(count, needed) == count >= needed

\* MEMORY_WARNING_THRESHOLD = 0.8, in percent
MEMORY_WARNING_PERCENT == 80

\* metrics.memory >= state.memoryLimit * MEMORY_WARNING_THRESHOLD
AtWarningLevel(mem, limit) == mem * 100 >= limit * MEMORY_WARNING_PERCENT

\* pollMetrics from the end of await pidusage(): the new MonitorState, the
\* types of the 'threshold-exceeded' events emitted and whether
\* 'memory-warning' was emitted, for the sample (cpu, mem)
pollMetrics(s, cpu, mem) ==
  LET samples == Shifted(Append(s.cpuSamples, cpu))
      memHit == s.memoryLimit # 0 /\ mem >= s.memoryLimit
      memCount == IF s.memoryLimit = 0 THEN s.memoryExceededCount
                  ELSE IF memHit THEN s.memoryExceededCount + 1 ELSE 0
      memEmit == memHit /\ Reached(memCount, MEMORY_CHECK_CONSECUTIVE)
      cpuHit == s.cpuLimit # 0 /\ AvgAtLeast(samples, s.cpuLimit)
      cpuCount == IF cpuHit THEN s.cpuExceededCount + 1 ELSE 0
      cpuEmit == cpuHit /\ Reached(cpuCount, CPU_CHECK_CONSECUTIVE)
  IN [st |-> [s EXCEPT !.cpuSamples = samples,
                       !.memoryExceededCount = IF memEmit THEN 0 ELSE memCount,
                       !.cpuExceededCount = IF cpuEmit THEN 0 ELSE cpuCount],
      types |-> (IF memEmit THEN {"memory"} ELSE {})
                \cup (IF cpuEmit THEN {"cpu"} ELSE {}),
      warning |-> memHit /\ AtWarningLevel(mem, s.memoryLimit)]

\* history: the runs of consecutive samples ending with the sample (cpu, mem)
\* taken by monitor s, counted up to RunCap, and the events the sample gave
\*   memRun / cpuRun:     memory at or above the limit / rolling mean at or above
\*   memAbove / cpuAbove: the sample itself strictly above the limit
\*   memHigh: the sample above 80% of the memory limit; memWarn: it gave a
\*   'memory-warning'
NextPolls(p, s, cpu, mem, types) ==
  LET samples == Shifted(Append(s.cpuSamples, cpu))
      Run(old, hit) == IF hit THEN Min(old + 1, RunCap) ELSE 0
  IN [memRun |-> Run(p.memRun, mem >= s.memoryLimit),
      cpuRun |-> Run(p.cpuRun, AvgAtLeast(samples, s.cpuLimit)),
      memAbove |-> Run(p.memAbove, mem > s.memoryLimit),
      cpuAbove |-> Run(p.cpuAbove, cpu > s.cpuLimit),
      memEv |-> "memory" \in types,
      cpuEv |-> "cpu" \in types,
      memHigh |-> s.memoryLimit # 0 /\ mem * 100 > s.memoryLimit * MEMORY_WARNING_PERCENT,
      memWarn |-> pollMetrics(s, cpu, mem).warning]

NoPolls ==
  [memRun |-> 0, cpuRun |-> 0, memAbove |-> 0, cpuAbove |-> 0,
   memEv |-> FALSE, cpuEv |-> FALSE, memHigh |-> FALSE, memWarn |-> FALSE]

\* ------------------------------------------------------- StateManager
\* Daemon.start registers its 'process:started' / 'process:stopped' /
\* 'process:restarted' listeners after await restoreState()
Listening == ~ \E t \in tasks : t.kind = "restore"

\* StateManager.saveState: debounce() clears a pending timeout and sets a new one
saveState(d) == [d EXCEPT !.saveTimer = TRUE]

\* the daemon's listeners on the ProcessManager's process events
OnProcessEvent(d) == IF Listening THEN saveState(d) ELSE d

RECURSIVE SortedSeq(_)
SortedSeq(S) ==
  IF S = {} THEN <<>>
  ELSE LET m == CHOOSE x \in S : \A y \in S : x <= y
       IN <<m>> \o SortedSeq(S \ {m})

\* ProcessRegistry.getAll: the values of the Map in insertion order, which is
\* the order of the ids' creation
getAll(reg, inf) ==
  LET ids == SortedSeq(reg) IN [i \in DOMAIN ids |-> inf[ids[i]]]

\* JSON.stringify of a config: a key whose value is undefined is left out
StringifyConfig(c) ==
  [k \in {"name", "watch", "maxRestarts", "restartDelay"}
          \cup (IF c.memoryLimit # 0 THEN {"memoryLimit"} ELSE {})
          \cup (IF c.cpuLimit # 0 THEN {"cpuLimit"} ELSE {}) |-> c[k]]

\* (mutant) a serializer that also leaves out a restartCount of 0
StringifyEntryDropsZero(e) ==
  [k \in (DOMAIN e) \ ((IF e.lastRestartReason = Undefined
                         THEN {"lastRestartReason"} ELSE {})
                       \cup (IF e.restartCount = 0 THEN {"restartCount"} ELSE {})) |->
     IF k = "config" THEN StringifyConfig(e.config) ELSE e[k]]

\* JSON.stringify of a ProcessInfo (cpu, memory, uptime, startTime are not
\* modelled): lastRestartReason is left out while it is undefined
StringifyEntry(e) ==
  [k \in (DOMAIN e) \ (IF e.lastRestartReason = Undefined
                        THEN {"lastRestartReason"} ELSE {}) |->
     IF k = "config" THEN StringifyConfig(e.config) ELSE e[k]]

VERSION == "0.1.0"

\* the complete text JSON.stringify(state, null, 2) of saveStateNow; `of` keeps,
\* as history, the list the text was made from
Stringify(procs) ==
  [kind |-> "text",
   json |-> [version |-> VERSION,
             processes |-> [i \in DOMAIN procs |-> StringifyEntry(procs[i])]],
   of |-> procs]

\* a file holding a proper prefix of a text (the empty one included)
Partial == [kind |-> "partial"]

\* JSON.parse(content): throws on a text that is cut short
Parse(file) ==
  IF file.kind = "text" THEN [ok |-> TRUE, json |-> file.json]
  ELSE [ok |-> FALSE, json |-> [error |-> "SyntaxError"]]

\* loadState's structure test: state.version && state.processes && isArray
Valid(json) == "version" \in DOMAIN json /\ "processes" \in DOMAIN json

\* loadState on the state file `file`: the list returned and whether the catch
\* block, which renames the file to .backup, is entered
loadState(file) ==
  IF file.kind = "absent" THEN [procs |-> <<>>, backup |-> FALSE]
  ELSE LET p == Parse(file)
       IN IF ~p.ok THEN [procs |-> <<>>, backup |-> TRUE]
          ELSE IF ~Valid(p.json) THEN [procs |-> <<>>, backup |-> FALSE]
          ELSE [procs |-> p.json.processes, backup |-> FALSE]

\* rename(from, to) on the three files: the name `to` now refers to the file
\* that was `from`
RenameFile(d, from, to) == [d EXCEPT ![to] = d[from], ![from] = Absent]

\* the open descriptors of the running saves follow their file through a rename
Renamed(ts, from, to) ==
  {[t EXCEPT !.fd = IF t.fd = from THEN to ELSE IF t.fd = to THEN "gone" ELSE @] :
     t \in ts}

\* ------------------------------------------------------- startProcess
PidOf(id) == 1000 + id

\* (mutant) an id generator that hands out the same id again
generateIdReused(n) == 1

\* ProcessRegistry.generateId: nanoid(10), a fresh id at every call; n is the
\* number of the call
generateId(n) == n

\* spawn() for id: the ChildProcess that processes.set(id, ...) stores.  A child
\* stored earlier under the same id and still alive is no longer reachable
\* from the map; `orphans` counts such children.
Spawn(ch, id) ==
  IF id \in DOMAIN ch
  THEN [ch EXCEPT ![id] = [alive |-> TRUE, killed |-> FALSE, sigkill |-> FALSE,
                           orphans |-> @.orphans + (IF @.alive THEN 1 ELSE 0)]]
  ELSE ch @@ (id :> [alive |-> TRUE, killed |-> FALSE, sigkill |-> FALSE,
                     orphans |-> 0])

NewInfo(id, cfg) ==
  [id |-> id, name |-> cfg.name, pid |-> 0, status |-> "starting",
   restartCount |-> 0, lastRestartReason |-> "none", config |-> cfg]

\* history of a new entry: the kind of task that created it, its place in the
\* chain of automatic restarts, the times of the chain's failed exits so far
NewHist(t) ==
  [cause |-> t.kind, exit |-> "none",
   gen |-> IF t.kind = "exit" THEN hist[t.id].gen + 1 ELSE 0,
   fails |-> IF t.kind = "exit" THEN hist[t.id].fails ELSE <<>>,
   saved |-> IF t.kind = "restore" THEN t.rc ELSE 0]

\* (mutant) a catch block that rethrows without removing the entry
StartCatchKeepsEntry(reg, id) == reg

\* startProcess's catch block: registry.remove(id)
StartCatch(reg, id) == reg \ {id}

\* (mutant) a caller that leaves the new ProcessInfo as startProcess made it
StartedInfoFresh(t) == info

\* what the caller of startProcess assigns to the ProcessInfo it got back:
\* restartProcess (restartCount, 'manual'), the exit handler (+1, 'crash')
StartedInfo(t) ==
  IF t.kind \in RestartKinds
  THEN [info EXCEPT ![t.nid].restartCount = t.rc,
                    ![t.nid].lastRestartReason = "manual"]
  ELSE IF t.kind = "exit"
  THEN [info EXCEPT ![t.nid].restartCount = info[t.id].restartCount + 1,
                    ![t.nid].lastRestartReason = "crash"]
  ELSE info

\* startProcess from the end of await fileExists() to await attachToProcess():
\* generateId, registry.add, spawnProcess, pid/status, processes.set, handlers.
StartSpawn(t) ==
  /\ t.pc = "start_fe"
  /\ \E exists \in BOOLEAN, spawned \in BOOLEAN :
       IF ~exists
       THEN /\ Finish(t, FALSE)
            /\ UNCHANGED <<registry, info, processes, children, nextId, hist,
                           failedStarts>>
       ELSE LET id == generateId(nextId)
                entry == NewInfo(id, t.cfg)
            IN /\ nextId' = nextId + 1
               /\ hist' = (id :> NewHist(t)) @@ hist
               /\ IF spawned
                  THEN /\ registry' = registry \cup {id}
                       /\ info' = (id :> [entry EXCEPT !.pid = PidOf(id),
                                                       !.status = "running"]) @@ info
                       /\ processes' = processes \cup {id}
                       /\ children' = Spawn(children, id)
                       /\ failedStarts' = failedStarts
                       /\ Suspend(t, [t EXCEPT !.pc = "start_attach", !.nid = id])
                  ELSE /\ registry' = StartCatch(registry \cup {id}, id)
                       /\ info' = (id :> entry) @@ info
                       /\ UNCHANGED <<processes, children>>
                       /\ failedStarts' = failedStarts \cup {id}
                       /\ Finish(t, FALSE)
  /\ UNCHANGED <<states, monitors, watchers, timers, nextSeq, received, emitted, bursts, polls, journal, logs, disk, daemon, now, decided, launch, conn, health, logread>>

\* startProcess from the end of await attachToProcess() to its return:
\* restartManager.register, startMonitoring (parseMemoryLimit may throw),
\* watchProcess, 'process:started'; then the caller's assignments.
StartAttach(t) ==
  /\ t.pc = "start_attach"
  /\ \E attached \in BOOLEAN :
       IF ~attached
       THEN /\ registry' = StartCatch(registry, t.nid)
            /\ failedStarts' = failedStarts \cup {t.nid}
            /\ Finish(t, FALSE)
            /\ UNCHANGED <<info, states, monitors, watchers, logs, daemon>>
       ELSE IF t.cfg.memoryLimit < 0
       THEN /\ states' = register(states, t.nid, t.cfg)
            /\ logs' = attachToProcess(logs, t.nid)
            /\ registry' = StartCatch(registry, t.nid)
            /\ failedStarts' = failedStarts \cup {t.nid}
            /\ Finish(t, FALSE)
            /\ UNCHANGED <<info, monitors, watchers, daemon>>
       ELSE /\ states' = IF t.kind = "exit"
                         THEN resetAttempts(register(states, t.nid, t.cfg), t.nid)
                         ELSE register(states, t.nid, t.cfg)
            /\ monitors' = (t.nid :> NewMonitor(PidOf(t.nid), t.cfg)) @@ monitors
            /\ watchers' = IF t.cfg.watch THEN watchers \cup {t.nid} ELSE watchers
            /\ logs' = attachToProcess(logs, t.nid)
            /\ info' = StartedInfo(t)
            /\ daemon' = OnProcessEvent(daemon)
            /\ Finish(t, TRUE)
            /\ UNCHANGED <<registry, failedStarts>>
  /\ UNCHANGED <<processes, children, nextId, timers, nextSeq, received, emitted,
                 hist, bursts, polls, journal, disk, now, decided, launch, conn, health, logread>>

\* -------------------------------------------------------- stopProcess
\* ProcessRegistry.getByName: the first entry, in insertion order, that bears
\* the name; 0 when there is none
getByName(reg, inf, name) ==
  LET named == {id \in reg : inf[id].name = name}
  IN IF named = {} THEN 0 ELSE CHOOSE id \in named : \A j \in named : id <= j

\* the handlers' lookup of their target: getProcess(target), then
\* getProcessByName(target) (an id is never used as a name here)
Lookup(t) == IF t.tname = "" THEN t.id ELSE getByName(registry, info, t.tname)

\* stopProcess up to its await waitForExit(): the lookups that throw, status
\* 'stopping', kill('SIGTERM') (which sets .killed when the signal is delivered).
\* t2 is the task as it continues when nothing throws.
StopSync(t, id, t2) ==
  IF id \notin registry \/ id \notin processes
  THEN /\ Finish(t, FALSE)
       /\ UNCHANGED <<info, children>>
  ELSE /\ info' = [info EXCEPT ![id].status = "stopping"]
       /\ children' = [children EXCEPT ![id].killed = @ \/ children[id].alive]
       /\ Suspend(t, [t2 EXCEPT !.pc = "stop_wait", !.id = id])

\* restartProcess up to the first await of the stopProcess it calls
RestartSync(t, id) ==
  IF id \notin registry
  THEN /\ Finish(t, FALSE)
       /\ UNCHANGED <<info, children>>
  ELSE StopSync(t, id, [t EXCEPT !.rc = info[id].restartCount + 1,
                                 !.cfg = info[id].config])

\* stopProcess after await unwatchProcess(): processes.delete, registry.remove,
\* 'process:stopped'; restartProcess goes on to startProcess(config).
\* handleStop with target 'all' then goes on to its loop's next
\* stopProcess(proc.id), up to that call's await waitForExit() or its throw.
\* ch: the children after the SIGKILL test of this stopProcess.
StopTail(t, ch) ==
  /\ watchers' = watchers \ {t.id}
  /\ processes' = processes \ {t.id}
  /\ registry' = registry \ {t.id}
  /\ daemon' = OnProcessEvent(daemon)
  /\ IF t.kind \in RestartKinds
     THEN /\ Suspend(t, [t EXCEPT !.pc = "start_fe"])
          /\ info' = info
          /\ children' = ch
     ELSE IF t.procs = <<>>
     THEN /\ Finish(t, TRUE)
          /\ info' = info
          /\ children' = ch
     ELSE LET id == Head(t.procs)
          IN IF id \notin registry \/ id \notin processes
             THEN /\ Finish(t, FALSE)
                  /\ info' = info
                  /\ children' = ch
             ELSE /\ info' = [info EXCEPT ![id].status = "stopping"]
                  /\ children' = [ch EXCEPT ![id].killed = @ \/ ch[id].alive]
                  /\ Suspend(t, [t EXCEPT !.pc = "stop_wait", !.id = id,
                                          !.procs = Tail(t.procs)])

\* stopProcess after the wait: if (!childProcess.killed) kill('SIGKILL').
\* ChildProcess.kill sends the signal, and sets .killed, only while the child
\* has not exited; .killed is already set by a delivered SIGTERM.
ForceKill(ch, id) ==
  IF ~ch[id].killed
  THEN [ch EXCEPT ![id].sigkill = @ \/ ch[id].alive,
                  ![id].killed = ch[id].alive]
  ELSE ch

\* stopProcess from the end of await waitForExit() (the child's 'exit' or the
\* 10 s timeout) to await unwatchProcess(): detach, unregister, stopMonitoring.
\* Without a watcher unwatchProcess needs no I/O and stopProcess runs on.
StopWaitDone(t) ==
  /\ t.pc = "stop_wait"
  /\ logs' = detach(logs, t.id)
  /\ states' = Drop(states, t.id)
  /\ monitors' = Drop(monitors, t.id)
  /\ IF t.id \in watchers
     THEN /\ Suspend(t, [t EXCEPT !.pc = "stop_unwatch"])
          /\ children' = ForceKill(children, t.id)
          /\ UNCHANGED <<info, watchers, processes, registry, daemon>>
     ELSE StopTail(t, ForceKill(children, t.id))
  /\ UNCHANGED <<nextId, timers, nextSeq, received, emitted, hist,
                 failedStarts, bursts, polls, journal, disk, now, decided, launch, conn, health, logread>>

StopUnwatchDone(t) ==
  /\ t.pc = "stop_unwatch"
  /\ StopTail(t, children)
  /\ UNCHANGED <<nextId, states, monitors, timers, nextSeq,
                 received, emitted, hist, failedStarts, bursts, polls, journal, logs,
                 disk, now, decided, launch, conn, health, logread>>

\* ------------------------------------------------- Daemon.handleCommand
\* handleCommand up to the first await that needs I/O
DispatchBody(t) ==
  CASE t.kind \in {"ping", "status"} ->
         /\ Finish(t, TRUE)
         /\ UNCHANGED <<registry, info, children, daemon>>
    [] t.kind = "save" ->
         /\ daemon' = saveState(daemon)
         /\ Finish(t, TRUE)
         /\ UNCHANGED <<registry, info, children>>
    [] t.kind = "start" ->
         /\ Suspend(t, [t EXCEPT !.pc = "start_fe"])
         /\ UNCHANGED <<registry, info, children, daemon>>
    [] t.kind = "stop" /\ t.tname = "all" ->
         LET procs == SortedSeq(registry)
         IN /\ IF procs = <<>>
               THEN /\ Finish(t, TRUE)
                    /\ UNCHANGED <<info, children>>
               ELSE StopSync(t, Head(procs), [t EXCEPT !.procs = Tail(procs)])
            /\ UNCHANGED <<registry, daemon>>
    [] t.kind = "stop" /\ t.tname # "all" ->
         /\ StopSync(t, Lookup(t), t)
         /\ UNCHANGED <<registry, daemon>>
    [] t.kind = "restart" ->
         /\ RestartSync(t, Lookup(t))
         /\ UNCHANGED <<registry, daemon>>
    [] t.kind = "delete" ->
         IF Lookup(t) \in registry /\ Lookup(t) \notin processes
         THEN /\ registry' = registry \ {Lookup(t)}
              /\ Finish(t, TRUE)
              /\ UNCHANGED <<info, children, daemon>>
         ELSE /\ StopSync(t, Lookup(t), t)
              /\ UNCHANGED <<registry, daemon>>

\* IPCServer.handleConnection: a 'data' event carrying the complete messages
\* cmds; the handler runs the first and awaits it, the others follow in turn.
DataEvent(cmds) ==
  /\ DispatchBody(CmdTask(cmds[1], nextSeq, received + 1, Tail(cmds)))
  /\ nextSeq' = nextSeq + Len(cmds)
  /\ received' = received + Len(cmds)
  /\ UNCHANGED <<processes, nextId, states, monitors, watchers, timers, emitted,
                 hist, failedStarts, bursts, polls, journal, logs, disk, now, decided, launch, conn, health, logread>>

\* the next message of a data event, once the previous reply is written
Dispatch(t) ==
  /\ t.pc = "dispatch"
  /\ DispatchBody(t)
  /\ UNCHANGED <<processes, nextId, states, monitors, watchers, timers, nextSeq,
                 received, emitted, hist, failedStarts, bursts, polls, journal, logs,
                 disk, now, decided, launch, conn, health, logread>>

\* ------------------------------------------------- background events
\* the ProcessManager's 'threshold-exceeded' listener, called once for each
\* type in `types` (memory first): restartProcess up to its first await
OnThreshold(id, types) ==
  IF types = {} \/ id \notin registry \/ id \notin processes
  THEN UNCHANGED <<info, children, tasks, replies, nextSeq>>
  ELSE /\ info' = [info EXCEPT ![id].status = "stopping"]
       /\ children' = [children EXCEPT ![id].killed = @ \/ children[id].alive]
       /\ tasks' = tasks \cup
            {[NewTask(IF type = "cpu" /\ "memory" \in types
                      THEN nextSeq + 1 ELSE nextSeq,
                      type, "stop_wait", id, 0, <<>>)
                EXCEPT !.rc = info[id].restartCount + 1,
                       !.cfg = info[id].config] : type \in types}
       /\ replies' = replies
       /\ nextSeq' = nextSeq + Cardinality(types)

\* a sample that makes the monitor emit 'threshold-exceeded' (the sampling
\* itself is left out of the interleaving model)
ThresholdExceeded(id, type) ==
  /\ id \in DOMAIN monitors
  /\ children[id].alive
  /\ IF type = "memory" THEN monitors[id].memoryLimit > 0
                        ELSE monitors[id].cpuLimit > 0
  /\ id \in registry
  /\ OnThreshold(id, {type})
  /\ UNCHANGED <<registry, processes, nextId, states, monitors, watchers, timers,
                 received, emitted, hist, failedStarts, bursts, polls, journal, logs, disk, daemon, now, decided, launch, conn, health, logread>>

\* pidusage resolves with the sample (cpu, mem) of a live child: pollMetrics
Poll(id, cpu, mem) ==
  /\ id \in DOMAIN monitors
  /\ children[id].alive
  /\ LET r == pollMetrics(monitors[id], cpu, mem)
     IN /\ monitors' = [monitors EXCEPT ![id] = r.st]
        /\ polls' = (id :> NextPolls(IF id \in DOMAIN polls THEN polls[id] ELSE NoPolls,
                                     monitors[id], cpu, mem, r.types)) @@ polls
        /\ OnThreshold(id, r.types)
  /\ UNCHANGED <<registry, processes, nextId, states, watchers, timers, received,
                 emitted, hist, failedStarts, bursts, journal, logs, disk, daemon,
                 now, decided, launch, conn, health, logread>>

\* (mutant) a debounce that keeps a pending timeout instead of replacing it
DebounceKeepsPending(pending, due, time) ==
  IF pending THEN due ELSE time + WATCH_DEBOUNCE_DELAY

\* debounce(): the time at which the timeout set by a call fires; a pending
\* timeout is cleared first, so only the last call's timeout remains
DebounceDue(pending, due, time) == time + WATCH_DEBOUNCE_DELAY

\* history (kept by the timed watcher model): an event less than the debounce
\* delay after the previous one belongs to the same burst
NextBurst(id, time) ==
  IF id \in DOMAIN bursts /\ time - bursts[id].last < WATCH_DEBOUNCE_DELAY
  THEN [bursts[id] EXCEPT !.n = @ + 1, !.last = time]
  ELSE [n |-> 1, last |-> time, changes |-> 0, at |-> 0]

\* a chokidar add/change/unlink event at `time`: the debounced restart function
FsEventBody(id, time) ==
  /\ id \in watchers
  /\ timers' = (id :> DebounceDue(id \in DOMAIN timers,
                                 IF id \in DOMAIN timers THEN timers[id] ELSE 0,
                                 time)) @@ timers
  /\ UNCHANGED <<registry, info, processes, children, nextId, states, monitors,
                 watchers, tasks, nextSeq, received, replies, emitted, hist,
                 failedStarts, polls, journal, logs, disk, daemon, decided, launch, conn, health, logread>>

\* the debounce timeout fires: WatchManager emits 'change', whose handler in
\* the ProcessManager restarts the process if the registry still has it
TimerFireBody(id) ==
  /\ id \in DOMAIN timers
  /\ timers' = Drop(timers, id)
  /\ IF id \in registry
     THEN /\ RestartSync(NewTask(nextSeq, "change", "event", id, 0, <<>>), id)
          /\ nextSeq' = nextSeq + 1
     ELSE UNCHANGED <<info, children, tasks, replies, nextSeq>>
  /\ UNCHANGED <<registry, processes, nextId, states, monitors, watchers,
                 received, emitted, hist, failedStarts, polls, journal, logs, disk, daemon, decided, launch, conn, health, logread>>

\* the child of id writes a chunk of n bytes to stdout or stderr: the 'data'
\* listener set up by attachToProcess.  A write to a stream that was ended
\* either finds it destroyed and is dropped, or is an unhandled 'error' event
\* of the stream, which ends the daemon.
Output(id, n) ==
  /\ id \in DOMAIN logs
  /\ children[id].alive
  /\ logs[id].produced + n <= MaxOutput * 1024 * 1024
  /\ logs' = [logs EXCEPT ![id] = writeLog(@, n)]
  /\ \E destroyed \in BOOLEAN :
       daemon' = IF logs[id].stream = "ended" /\ ~destroyed
                 THEN [daemon EXCEPT !.up = FALSE]
                 ELSE daemon
  /\ UNCHANGED <<registry, info, processes, children, nextId, states, monitors,
                 watchers, timers, tasks, nextSeq, received, replies, emitted, hist,
                 failedStarts, bursts, polls, journal, disk, now, decided, launch, conn, health, logread>>

\* ------------------------------------------------------ snapshots
\* a number that tells a new call of saveStateNow from those still running
SaveSeq ==
  CHOOSE n \in 1..(Cardinality(tasks) + 1) :
    \A t \in tasks : t.kind = "save" => t.seq # n

\* the debounce timeout of saveState fires: saveStateNow up to the open() of
\* await writeFile(tempFile, JSON.stringify(state))
SaveTimerFire ==
  /\ daemon.saveTimer
  /\ daemon' = [daemon EXCEPT !.saveTimer = FALSE]
  /\ tasks' = tasks \cup
       {[NewTask(SaveSeq, "save", "save_open", 0, 0, <<>>)
           EXCEPT !.text = Stringify(getAll(registry, info))]}
  /\ UNCHANGED <<registry, info, processes, children, nextId, states, monitors,
                 watchers, timers, nextSeq, received, replies, emitted, hist,
                 failedStarts, bursts, polls, journal, logs, disk, now, decided, launch, conn, health, logread>>

\* writeFile opens state.json.tmp with flag 'w': the file is created, or the
\* existing file is cut to length 0
SaveOpen(t) ==
  /\ t.pc = "save_open"
  /\ disk' = [disk EXCEPT !.tmp = Partial]
  /\ Suspend(t, [t EXCEPT !.pc = "save_write", !.fd = "tmp"])
  /\ UNCHANGED <<registry, info, processes, children, nextId, states, monitors,
                 watchers, timers, nextSeq, received, emitted, hist, failedStarts,
                 bursts, polls, journal, logs, daemon, now, decided, launch, conn, health, logread>>

\* writeFile writes the text through its descriptor, from offset 0, into the
\* file it opened, whatever name that file has by now.  Onto a file another
\* save has written since, the result is this text or, if this text is the
\* shorter one, this text followed by the rest of the other.
SaveWrite(t) ==
  /\ t.pc = "save_write"
  /\ IF t.fd = "gone"
     THEN disk' = disk
     ELSE \E shorter \in BOOLEAN :
            /\ shorter => disk[t.fd].kind = "text" /\ disk[t.fd] # t.text
            /\ disk' = [disk EXCEPT ![t.fd] = IF shorter THEN Partial ELSE t.text]
  /\ Suspend(t, [t EXCEPT !.pc = "save_rename"])
  /\ UNCHANGED <<registry, info, processes, children, nextId, states, monitors,
                 watchers, timers, nextSeq, received, emitted, hist, failedStarts,
                 bursts, polls, journal, logs, daemon, now, decided, launch, conn, health, logread>>

\* await rename(tempFile, STATE_FILE); ENOENT is caught and logged
SaveRename(t) ==
  /\ t.pc = "save_rename"
  /\ IF disk.tmp.kind = "absent"
     THEN /\ disk' = disk
          /\ tasks' = tasks \ {t}
     ELSE /\ disk' = RenameFile(disk, "tmp", "state")
          /\ tasks' = Renamed(tasks \ {t}, "tmp", "state")
  /\ UNCHANGED <<registry, info, processes, children, nextId, states, monitors,
                 watchers, timers, nextSeq, received, replies, emitted, hist,
                 failedStarts, bursts, polls, journal, logs, daemon, now, decided, launch, conn, health, logread>>

\* the daemon is killed (SIGKILL): everything it held in memory is gone, the
\* files and the children stay
DaemonKill ==
  /\ daemon.up
  /\ daemon.boots < MaxBoots
  /\ daemon' = [daemon EXCEPT !.up = FALSE, !.saveTimer = FALSE]
  /\ registry' = {}
  /\ info' = <<>>
  /\ processes' = {}
  /\ states' = <<>>
  /\ monitors' = <<>>
  /\ watchers' = {}
  /\ timers' = <<>>
  /\ tasks' = {}
  /\ logs' = [id \in DOMAIN logs |-> [logs[id] EXCEPT !.stream = "none"]]
  /\ UNCHANGED <<children, nextId, nextSeq, received, replies, emitted, hist,
                 failedStarts, bursts, polls, journal, disk, now, decided, launch, conn, health, logread>>

\* a fresh daemon: Daemon.start up to restoreState's await fileExists(STATE_FILE)
Boot ==
  /\ ~daemon.up
  /\ daemon.boots < MaxBoots
  /\ daemon' = [daemon EXCEPT !.up = TRUE, !.boots = @ + 1]
  /\ tasks' = {NewTask(0, "restore", "load_exists", 0, 0, <<>>)}
  /\ UNCHANGED <<registry, info, processes, children, nextId, states, monitors,
                 watchers, timers, nextSeq, received, replies, emitted, hist,
                 failedStarts, bursts, polls, journal, logs, disk, now, decided, launch, conn, health, logread>>

\* loadState after await fileExists(): no file, no processes
LoadExists(t) ==
  /\ t.pc = "load_exists"
  /\ IF disk.state.kind = "absent"
     THEN tasks' = tasks \ {t}
     ELSE tasks' = (tasks \ {t}) \cup {[t EXCEPT !.pc = "load_read"]}
  /\ UNCHANGED <<registry, info, processes, children, nextId, states, monitors,
                 watchers, timers, nextSeq, received, replies, emitted, hist,
                 failedStarts, bursts, polls, journal, logs, disk, daemon, now, decided, launch, conn, health, logread>>

\* loadState after await readFile(): JSON.parse and the structure test; then
\* either the catch block's await rename() or restoreState's loop
LoadRead(t) ==
  /\ t.pc = "load_read"
  /\ LET r == loadState(disk.state)
     IN tasks' = (tasks \ {t}) \cup
          (IF r.backup THEN {[t EXCEPT !.pc = "load_backup"]}
           ELSE RestoreLoop(t.seq, r.procs))
  /\ UNCHANGED <<registry, info, processes, children, nextId, states, monitors,
                 watchers, timers, nextSeq, received, replies, emitted, hist,
                 failedStarts, bursts, polls, journal, logs, disk, daemon, now, decided, launch, conn, health, logread>>

\* the catch block of loadState: rename(STATE_FILE, STATE_FILE.backup), whose
\* errors are ignored; loadState returns []
LoadBackup(t) ==
  /\ t.pc = "load_backup"
  /\ IF disk.state.kind = "absent"
     THEN /\ disk' = disk
          /\ tasks' = tasks \ {t}
     ELSE /\ disk' = RenameFile(disk, "state", "backup")
          /\ tasks' = Renamed(tasks \ {t}, "state", "backup")
  /\ UNCHANGED <<registry, info, processes, children, nextId, states, monitors,
                 watchers, timers, nextSeq, received, replies, emitted, hist,
                 failedStarts, bursts, polls, journal, logs, daemon, now, decided, launch, conn, health, logread>>

\* ------------------------------------------------------ exit handler
\* the crash file of id (its number of records) and, as history, the order in
\* which the exit handler of id's child went through its stages
JournalOf(id) ==
  IF id \in DOMAIN journal THEN journal[id] ELSE [records |-> 0, trail |-> <<>>]

\* CrashReporter.recordCrash: the record is pushed and written; a failure of
\* ensureDir or writeFile is caught and logged, the file stays as it was
recordCrash(j, written) ==
  IF written
  THEN [records |-> j.records + 1, trail |-> Append(j.trail, "append")]
  ELSE [j EXCEPT !.trail = Append(@, "append-failed")]

Stage(j, name) == [j EXCEPT !.trail = Append(@, name)]

\* (mutant) an exit handler that goes straight to the respawn
ExitHandlerSkipsPolicy(code) == "exit_sleep"

\* the first await of the exit handler for a failed exit: await recordCrash()
ExitHandlerAwait(code) == "exit_crash"
AddFail(h, id, code, time) ==
  IF code = "ok"
  THEN [h EXCEPT ![id].exit = code]
  ELSE [h EXCEPT ![id].exit = code, ![id].fails = Append(@, time)]

\* (mutant) an exit handler that records every exit as stopped
ExitStatusStopped(code) == "stopped"

\* processInfo.status = code === 0 ? 'stopped' : 'errored'
ExitStatus(code) == IF code = "ok" THEN "stopped" ELSE "errored"

\* the child's 'exit' event at `time`: the handler set up by
\* setupProcessHandlers, up to await recordCrash() (failed exit) or to its end
\* (clean exit: no crash record, handleExit returns without sleeping)
ChildExitBody(id, code, time) ==
  /\ id \in DOMAIN children
  /\ children[id].alive
  /\ children' = [children EXCEPT ![id].alive = FALSE]
  /\ hist' = AddFail(hist, id, code, time)
  /\ IF id \notin registry
     THEN UNCHANGED <<info, processes, states, emitted, tasks, replies, nextSeq>>
     ELSE /\ info' = [info EXCEPT ![id].status = ExitStatus(code)]
          /\ IF code = "ok"
             THEN LET r == handleExit(states, id, TRUE, time)
                  IN /\ processes' = processes \ {id}
                     /\ states' = r.st
                     /\ emitted' = emitted \cup r.ev
                     /\ UNCHANGED <<tasks, replies, nextSeq>>
             ELSE /\ tasks' = tasks \cup
                        {NewTask(nextSeq, "exit", ExitHandlerAwait(code), id, 0, <<>>)}
                  /\ nextSeq' = nextSeq + 1
                  /\ UNCHANGED <<processes, states, emitted, replies>>
  /\ UNCHANGED <<registry, nextId, monitors, watchers, timers, received,
                 failedStarts, bursts, polls, journal, logs, disk, daemon, decided, launch, conn, health, logread>>

\* exit handler from the end of await recordCrash() to await sleep(delay)
\* inside handleExit: 'process:exit', processes.delete, the policy's decision
\* (written: whether the journal's I/O succeeded)
ExitCrashRecordedBody(t, written) ==
  /\ t.pc = "exit_crash"
  /\ processes' = processes \ {t.id}
  /\ journal' = (t.id :> Stage(recordCrash(JournalOf(t.id), written), "policy"))
                 @@ journal
  /\ LET r == handleExit(states, t.id, FALSE, now)
     IN /\ states' = r.st
        /\ emitted' = emitted \cup r.ev
        /\ IF r.grant
           THEN Suspend(t, [t EXCEPT !.pc = "exit_sleep", !.due = now + r.delay])
           ELSE Finish(t, FALSE)
  /\ UNCHANGED <<registry, info, children, nextId, monitors, watchers, timers,
                 nextSeq, received, hist, failedStarts, bursts, polls, logs, disk, daemon, now, decided, launch, conn, health, logread>>

\* exit handler after the sleep: status 'restarting', detach, registry.remove,
\* then startProcess(config) up to its await fileExists()
ExitSleepDoneBody(t) ==
  /\ t.pc = "exit_sleep"
  /\ journal' = (t.id :> Stage(JournalOf(t.id), "respawn")) @@ journal
  /\ info' = [info EXCEPT ![t.id].status = "restarting"]
  /\ logs' = detach(logs, t.id)
  /\ registry' = registry \ {t.id}
  /\ Suspend(t, [t EXCEPT !.pc = "start_fe", !.cfg = info[t.id].config])
  /\ UNCHANGED <<processes, children, nextId, states, monitors, watchers, timers,
                 nextSeq, received, emitted, hist, failedStarts, bursts, polls, disk, daemon, decided, launch, conn, health, logread>>

\* --------------------------------------- the interleaving model (untimed)
\* Time is left out: every timeout may fire at any step and Date.now() stays 0.
\* A failed exit's handler counts as a background event.
ChildExit(id, code) ==
  /\ code = "ok" \/ id \notin registry \/ nextSeq <= MaxOps
  /\ ChildExitBody(id, code, now)
  /\ now' = now
ExitCrashRecorded(t) == \E written \in BOOLEAN : ExitCrashRecordedBody(t, written)
ExitSleepDone(t) == ExitSleepDoneBody(t) /\ now' = now
FsEvent(id) == FsEventBody(id, now) /\ UNCHANGED <<bursts, now>>
TimerFire(id) ==
  /\ id \in registry => nextSeq <= MaxOps
  /\ TimerFireBody(id)
  /\ UNCHANGED <<bursts, now>>

Next ==
  \/ \E n \in 1..MaxBatch :
       /\ nextSeq + n - 1 <= MaxOps
       /\ \E cmds \in Batches(n, nextId - 1) : DataEvent(cmds)
  \/ \E t \in tasks : Dispatch(t)
  \/ \E t \in tasks : nextId <= MaxIds /\ StartSpawn(t)
  \/ \E t \in tasks : StartAttach(t)
  \/ \E t \in tasks : StopWaitDone(t)
  \/ \E t \in tasks : StopUnwatchDone(t)
  \/ \E id \in 1..MaxIds, type \in {"memory", "cpu"} :
       nextSeq <= MaxOps /\ ThresholdExceeded(id, type)
  \/ \E id \in 1..MaxIds : FsEvent(id)
  \/ \E id \in 1..MaxIds : TimerFire(id)
  \/ \E id \in 1..MaxIds, code \in ExitCodes : ChildExit(id, code)
  \/ \E t \in tasks : ExitCrashRecorded(t)
  \/ \E t \in tasks : ExitSleepDone(t)

Spec == Init /\ [][Next]_vars

\* ------------------------------------------- the restart chain, with time
\* One program is started; its children run for one of Uptimes ms and exit.
\* now advances with the children's run time and with the backoff sleeps;
\* the crash journal's I/O succeeds.
Uptimes == {100, 2000}

StartOnce ==
  /\ nextSeq = 1
  /\ DataEvent(<<[action |-> "start", target |-> 0, cfg |-> CfgPlain]>>)

ChildExitAfter(id, code, d) ==
  /\ now' = now + d
  /\ ChildExitBody(id, code, now + d)

ExitSleepDoneAt(t) ==
  /\ t.pc = "exit_sleep"
  /\ now <= t.due
  /\ now' = t.due
  /\ ExitSleepDoneBody(t)

TimedNext ==
  \/ StartOnce
  \/ \E t \in tasks : nextId <= MaxChain /\ StartSpawn(t)
  \/ \E t \in tasks : StartAttach(t)
  \/ \E id \in 1..MaxChain, code \in ExitCodes, d \in Uptimes :
       ChildExitAfter(id, code, d)
  \/ \E t \in tasks : ExitCrashRecordedBody(t, TRUE)
  \/ \E t \in tasks : ExitSleepDoneAt(t)

SpecTimed == Init /\ [][TimedNext]_vars

\* ------------------------------------------------ the watcher, with time
\* One watched program is started; filesystem events arrive Gaps ms apart.
\* A timeout fires at its due time: the event loop runs due timers before it
\* polls for I/O, so no filesystem event is handled past a pending due time.
Gaps == {200, 499, 500}

StartWatched ==
  /\ nextSeq = 1
  /\ DataEvent(<<[action |-> "start", target |-> 0, cfg |-> CfgWatch]>>)

FsEventAt(id, g) ==
  /\ now + g <= MaxClock
  /\ \A j \in DOMAIN timers : timers[j] > now + g
  /\ now' = now + g
  /\ bursts' = (id :> NextBurst(id, now + g)) @@ bursts
  /\ FsEventBody(id, now + g)

TimerFireAt(id) ==
  /\ id \in DOMAIN timers
  /\ \A j \in DOMAIN timers : timers[id] <= timers[j]
  /\ now' = timers[id]
  /\ bursts' = [bursts EXCEPT ![id].changes = @ + 1, ![id].at = timers[id]]
  /\ TimerFireBody(id)

WatchNext ==
  \/ StartWatched
  \/ \E t \in tasks : nextId <= MaxIds /\ StartSpawn(t)
  \/ \E t \in tasks : StartAttach(t)
  \/ \E id \in 1..MaxIds, g \in Gaps : FsEventAt(id, g)
  \/ \E id \in 1..MaxIds : TimerFireAt(id)
  \/ \E t \in tasks : StopWaitDone(t)
  \/ \E t \in tasks : StopUnwatchDone(t)

SpecWatch == Init /\ [][WatchNext]_vars

\* ------------------------------------------------------ the log files
\* Programs are started and write their output in chunks of ChunkSizes bytes.
ChunkSizes == {3 * 1024 * 1024, 4 * 1024 * 1024}

StartLogged ==
  /\ nextSeq <= MaxOps
  /\ DataEvent(<<[action |-> "start", target |-> 0, cfg |-> CfgPlain]>>)

LogNext ==
  \/ daemon.up /\ StartLogged
  \/ \E t \in tasks : daemon.up /\ nextId <= MaxIds /\ StartSpawn(t)
  \/ \E t \in tasks : daemon.up /\ StartAttach(t)
  \/ \E id \in 1..MaxIds, n \in ChunkSizes : daemon.up /\ Output(id, n)

SpecLog == Init /\ [][LogNext]_vars

\* ------------------------------------------------------ the snapshots
\* A daemon that is sent start, restart, stop and save commands by a client
\* that waits for each reply, saves its registry, is killed and booted again.
SnapCommands(k) ==
  {[action |-> "start", target |-> 0, cfg |-> CfgPlain],
   [action |-> "save", target |-> 0, cfg |-> NoCfg]}
  \cup {[action |-> a, target |-> i, cfg |-> NoCfg] :
          a \in {"stop", "restart"}, i \in 1..k}

SnapCommand ==
  /\ received < MaxOps
  /\ \A t \in tasks : ~IsCommand(t)
  /\ \E cmd \in SnapCommands(nextId - 1) : DataEvent(<<cmd>>)

SnapNext ==
  \/ daemon.up /\ SnapCommand
  \/ \E t \in tasks : daemon.up /\ nextId <= 2 * MaxIds /\ StartSpawn(t)
  \/ \E t \in tasks : daemon.up /\ StartAttach(t)
  \/ \E t \in tasks : daemon.up /\ StopWaitDone(t)
  \/ daemon.up /\ Cardinality({t \in tasks : t.kind = "save"}) < MaxSaves
               /\ SaveTimerFire
  \/ \E t \in tasks : daemon.up /\ SaveOpen(t)
  \/ \E t \in tasks : daemon.up /\ SaveWrite(t)
  \/ \E t \in tasks : daemon.up /\ SaveRename(t)
  \/ DaemonKill
  \/ Boot
  \/ \E t \in tasks : daemon.up /\ LoadExists(t)
  \/ \E t \in tasks : daemon.up /\ LoadRead(t)
  \/ \E t \in tasks : daemon.up /\ LoadBackup(t)

SpecSnap == Init /\ [][SnapNext]_vars

\* The same daemon booted for the first time on a state file it did not write:
\* unparseable text, JSON of another structure, or nothing.
ForeignFiles ==
  {Absent, Partial,
   [kind |-> "text", json |-> [version |-> VERSION]],
   [kind |-> "text", json |-> [processes |-> <<>>]]}

LoadInit ==
  /\ registry = {}
  /\ info = <<>>
  /\ processes = {}
  /\ children = <<>>
  /\ nextId = 1
  /\ states = <<>>
  /\ monitors = <<>>
  /\ watchers = {}
  /\ timers = <<>>
  /\ tasks = {}
  /\ nextSeq = 1
  /\ received = 0
  /\ replies = <<>>
  /\ emitted = {}
  /\ hist = <<>>
  /\ failedStarts = {}
  /\ bursts = <<>>
  /\ polls = <<>>
  /\ journal = <<>>
  /\ logs = <<>>
  /\ \E f \in ForeignFiles : disk = [NoFiles EXCEPT !.state = f]
  /\ daemon = [up |-> FALSE, saveTimer |-> FALSE, boots |-> 0]
  /\ now = 0
  /\ decided = NoCall
  /\ launch = NoLaunch
  /\ conn = NoConn
  /\ health = NoHealth
  /\ logread = NoRead

SpecLoad == LoadInit /\ [][SnapNext]_vars

\* ------------------------------------------------------ the monitor
\* One program with a memory and a cpu limit is started and sampled; an
\* emitted 'threshold-exceeded' restarts it, and the new child is sampled.
CpuSamples == {0, 50, 100}
MemSamples == {0, 60, 64, 100}

StartLimited ==
  /\ nextSeq = 1
  /\ DataEvent(<<[action |-> "start", target |-> 0, cfg |-> CfgWatch]>>)

MonNext ==
  \/ StartLimited
  \/ \E t \in tasks : nextId <= MaxIds /\ StartSpawn(t)
  \/ \E t \in tasks : StartAttach(t)
  \/ \E id \in 1..MaxIds, cpu \in CpuSamples, mem \in MemSamples :
       nextSeq <= MaxOps /\ Poll(id, cpu, mem)
  \/ \E t \in tasks : StopWaitDone(t)
  \/ \E t \in tasks : StopUnwatchDone(t)

SpecMon == Init /\ [][MonNext]_vars

\* ------------------------------------------- commands that name a target
\* A daemon that is sent start commands and stop commands whose target is a
\* name or the word all, by a client that waits for each reply, while children
\* exit on their own with code 0.
MaxCli == 4

CliCommands ==
  {[action |-> "start", target |-> 0, cfg |-> CfgPlain, name |-> ""]}
  \cup {[action |-> "stop", target |-> 0, cfg |-> NoCfg, name |-> n] :
          n \in {CfgPlain.name, "all"}}

CliCommand ==
  /\ received < MaxCli
  /\ \A t \in tasks : ~IsCommand(t)
  /\ \E cmd \in CliCommands : DataEvent(<<cmd>>)

CleanExit(id) == ChildExitBody(id, "ok", now) /\ now' = now

CliNext ==
  \/ CliCommand
  \/ \E t \in tasks : nextId <= MaxIds + 1 /\ StartSpawn(t)
  \/ \E t \in tasks : StartAttach(t)
  \/ \E t \in tasks : StopWaitDone(t)
  \/ \E id \in 1..(MaxIds + 1) : CleanExit(id)

SpecCli == Init /\ [][CliNext]_vars

\* ------------------------------------------- the RestartManager by itself
\* The caller registers an id with a policy, reports exits of the id, clean or
\* failed, PolicyGaps ms apart, whether it is registered or not, resets its
\* attempts and unregisters it, in any order, up to PolicyHorizon ms.
PolicyHorizon == 90000
PolicyGaps == {10000, 20000}

\* max_restarts: 0 in a config file (never restart)
CfgNoRestart == [NoCfg EXCEPT !.name = "once", !.maxRestarts = 0]
\* max_restarts: 2, restart_delay: 16000
CfgSlow == [NoCfg EXCEPT !.name = "slow", !.maxRestarts = 2, !.restartDelay = 16000]
PolicyConfigs == {CfgPlain, CfgNoRestart, CfgSlow}

PolicyRegister(id, cfg) ==
  /\ states' = register(states, id, cfg)
  /\ UNCHANGED <<registry, info, processes, children, nextId, monitors, watchers,
                 timers, tasks, nextSeq, received, replies, emitted, hist,
                 failedStarts, bursts, polls, journal, logs, disk, daemon, now,
                 decided, launch, conn, health, logread>>

PolicyUnregister(id) ==
  /\ id \in DOMAIN states
  /\ states' = Drop(states, id)
  /\ UNCHANGED <<registry, info, processes, children, nextId, monitors, watchers,
                 timers, tasks, nextSeq, received, replies, emitted, hist,
                 failedStarts, bursts, polls, journal, logs, disk, daemon, now,
                 decided, launch, conn, health, logread>>

PolicyReset(id) ==
  /\ states' = resetAttempts(states, id)
  /\ states' # states
  /\ UNCHANGED <<registry, info, processes, children, nextId, monitors, watchers,
                 timers, tasks, nextSeq, received, replies, emitted, hist,
                 failedStarts, bursts, polls, journal, logs, disk, daemon, now,
                 decided, launch, conn, health, logread>>

\* handleExit(id, exitCode, signal) at time now + d, up to its return or its
\* await sleep(delay)
PolicyExit(id, clean, d) ==
  /\ now + d <= PolicyHorizon
  /\ now' = now + d
  /\ LET r == handleExit(states, id, clean, now + d)
     IN /\ states' = r.st
        /\ emitted' = emitted \cup r.ev
        /\ decided' = [id |-> id, clean |-> clean, time |-> now + d,
                       known |-> id \in DOMAIN states,
                       before |-> IF id \in DOMAIN states THEN states[id] ELSE NoCall,
                       after |-> IF id \in DOMAIN states THEN r.st[id] ELSE NoCall,
                       grant |-> r.grant, delay |-> r.delay, ev |-> r.ev]
  /\ UNCHANGED <<registry, info, processes, children, nextId, monitors, watchers,
                 timers, tasks, nextSeq, received, replies, hist,
                 failedStarts, bursts, polls, journal, logs, disk, daemon, launch, conn, health, logread>>

PolicyNext ==
  \/ \E cfg \in PolicyConfigs : PolicyRegister(1, cfg)
  \/ PolicyUnregister(1)
  \/ PolicyReset(1)
  \/ \E clean \in BOOLEAN, d \in PolicyGaps : PolicyExit(1, clean, d)

SpecPolicy == Init /\ [][PolicyNext]_vars

\* ------------------------------------------------ the denied restart
\* Programs whose config has max_restarts: 0 are started; their children exit
\* with any code at any moment, while a client that waits for each reply
\* sends status, stop and delete commands.
DenyCommands(k) ==
  {[action |-> "start", target |-> 0, cfg |-> CfgNoRestart],
   [action |-> "status", target |-> 0, cfg |-> NoCfg]}
  \cup {[action |-> a, target |-> i, cfg |-> NoCfg] :
          a \in {"stop", "delete"}, i \in 1..k}

DenyCommand ==
  /\ received <= MaxOps
  /\ \A t \in tasks : ~IsCommand(t)
  /\ \E cmd \in DenyCommands(nextId - 1) : DataEvent(<<cmd>>)

DenyNext ==
  \/ DenyCommand
  \/ \E t \in tasks : nextId <= MaxIds /\ StartSpawn(t)
  \/ \E t \in tasks : StartAttach(t)
  \/ \E t \in tasks : StopWaitDone(t)
  \/ \E id \in 1..MaxIds, code \in ExitCodes :
       ChildExitBody(id, code, now) /\ now' = now
  \/ \E t \in tasks : ExitCrashRecorded(t)

SpecDeny == Init /\ [][DenyNext]_vars

\* --------------------------------------- the snapshot behind the registry
\* The daemon of SpecDeny together with its StateManager: the debounce
\* timeout of saveState fires and saveStateNow writes state.json.
DirtyCommand ==
  /\ received < MaxOps
  /\ \A t \in tasks : ~IsCommand(t)
  /\ \E cmd \in DenyCommands(nextId - 1) : DataEvent(<<cmd>>)

DirtyNext ==
  \/ DirtyCommand
  \/ \E t \in tasks : nextId <= MaxIds /\ StartSpawn(t)
  \/ \E t \in tasks : StartAttach(t)
  \/ \E t \in tasks : StopWaitDone(t)
  \/ \E id \in 1..MaxIds, code \in ExitCodes :
       ChildExitBody(id, code, now) /\ now' = now
  \/ \E t \in tasks : ExitCrashRecorded(t)
  \/ Cardinality({t \in tasks : t.kind = "save"}) < MaxSaves /\ SaveTimerFire
  \/ \E t \in tasks : SaveOpen(t)
  \/ \E t \in tasks : SaveWrite(t)
  \/ \E t \in tasks : SaveRename(t)

SpecDirty == Init /\ [][DirtyNext]_vars

\* -------------------------------------------- two daemons on one directory
\* Two daemon processes are launched on the same data directory, on which a
\* daemon that was killed may have left its daemon.pid.  Each step is one file
\* system call of Daemon.start; the two processes interleave freely.
Advance(d, pc) == [launch EXCEPT !.pc[d] = pc]

\* a process that kill(pid, 0) finds: a daemon that was launched and has not
\* exited
Alive(pid) == pid \in Daemons /\ launch.pc[pid] \notin {"idle", "refused", "failed"}

\* Daemon.start up to isDaemonRunning's await fileExists(DAEMON_PID_FILE)
LaunchBegin(d) ==
  /\ launch.pc[d] = "idle"
  /\ launch' = Advance(d, "pid_exists")

\* fileExists(DAEMON_PID_FILE)
PidExists(d) ==
  /\ launch.pc[d] = "pid_exists"
  /\ launch' = Advance(d, IF launch.pidFile = 0 THEN "logging" ELSE "pid_read")

\* readFile, parseInt: a file that is gone throws, an empty file gives NaN,
\* and isDaemonRunning returns false for both
PidRead(d) ==
  /\ launch.pc[d] = "pid_read"
  /\ launch' = IF launch.pidFile \in {0, -1}
               THEN Advance(d, "logging")
               ELSE [Advance(d, "pid_kill") EXCEPT !.seen[d] = launch.pidFile]

\* process.kill(pid, 0): 'Daemon is already running', or removePidFile
PidKill(d) ==
  /\ launch.pc[d] = "pid_kill"
  /\ launch' = Advance(d, IF Alive(launch.seen[d]) THEN "refused" ELSE "rm_exists")

\* removePidFile: fileExists, then unlink inside try / catch
RemoveExists(d) ==
  /\ launch.pc[d] = "rm_exists"
  /\ launch' = Advance(d, IF launch.pidFile = 0 THEN "logging" ELSE "rm_unlink")

RemoveUnlink(d) ==
  /\ launch.pc[d] = "rm_unlink"
  /\ launch' = [Advance(d, "logging") EXCEPT !.pidFile = 0]

\* setupLogging, then writePidFile: writeFile opens the file with flag 'w' ...
PidOpen(d) ==
  /\ launch.pc[d] = "logging"
  /\ launch' = [Advance(d, "pid_write") EXCEPT !.pidFile = -1]

\* ... and writes process.pid
PidWrite(d) ==
  /\ launch.pc[d] = "pid_write"
  /\ launch' = [Advance(d, "sock_exists") EXCEPT !.pidFile = d]

\* IPCServer.start: fileExists(DAEMON_SOCKET_PATH)
SocketExists(d) ==
  /\ launch.pc[d] = "sock_exists"
  /\ launch' = Advance(d, IF launch.socket = 0 THEN "listen" ELSE "sock_unlink")

\* unlink(DAEMON_SOCKET_PATH): throws when the file is gone
SocketUnlink(d) ==
  /\ launch.pc[d] = "sock_unlink"
  /\ launch' = IF launch.socket = 0 THEN Advance(d, "failed")
               ELSE [Advance(d, "listen") EXCEPT !.socket = 0]

\* server.listen(DAEMON_SOCKET_PATH): EADDRINUSE when the file exists
Listen(d) ==
  /\ launch.pc[d] = "listen"
  /\ launch' = IF launch.socket # 0 THEN Advance(d, "failed")
               ELSE [Advance(d, "listening") EXCEPT !.socket = d]

Others ==
  <<registry, info, processes, children, nextId, states, monitors, watchers,
    timers, tasks, nextSeq, received, replies, emitted, hist, failedStarts,
    bursts, polls, journal, logs, disk, daemon, now, decided, conn, health, logread>>

LaunchNext ==
  \/ \E d \in Daemons : LaunchBegin(d) /\ UNCHANGED Others
  \/ \E d \in Daemons : PidExists(d) /\ UNCHANGED Others
  \/ \E d \in Daemons : PidRead(d) /\ UNCHANGED Others
  \/ \E d \in Daemons : PidKill(d) /\ UNCHANGED Others
  \/ \E d \in Daemons : RemoveExists(d) /\ UNCHANGED Others
  \/ \E d \in Daemons : RemoveUnlink(d) /\ UNCHANGED Others
  \/ \E d \in Daemons : PidOpen(d) /\ UNCHANGED Others
  \/ \E d \in Daemons : PidWrite(d) /\ UNCHANGED Others
  \/ \E d \in Daemons : SocketExists(d) /\ UNCHANGED Others
  \/ \E d \in Daemons : SocketUnlink(d) /\ UNCHANGED Others
  \/ \E d \in Daemons : Listen(d) /\ UNCHANGED Others

\* the directory is empty, or a daemon that was killed has left its pid file
\* and its socket file
LaunchInit ==
  /\ registry = {}
  /\ info = <<>>
  /\ processes = {}
  /\ children = <<>>
  /\ nextId = 1
  /\ states = <<>>
  /\ monitors = <<>>
  /\ watchers = {}
  /\ timers = <<>>
  /\ tasks = {}
  /\ nextSeq = 1
  /\ received = 0
  /\ replies = <<>>
  /\ emitted = {}
  /\ hist = <<>>
  /\ failedStarts = {}
  /\ bursts = <<>>
  /\ polls = <<>>
  /\ journal = <<>>
  /\ logs = <<>>
  /\ disk = NoFiles
  /\ daemon = [up |-> TRUE, saveTimer |-> FALSE, boots |-> 1]
  /\ now = 0
  /\ decided = NoCall
  /\ \E f \in {0, StalePid} :
       launch = [NoLaunch EXCEPT !.pidFile = f, !.socket = f]
  /\ conn = NoConn
  /\ health = NoHealth
  /\ logread = NoRead

SpecLaunch == LaunchInit /\ [][LaunchNext]_vars

\* ------------------------------------------------- the framing of requests
\* One connection: the client's bytes arrive in 'data' events that cut the
\* stream anywhere.  The bytes are '1' (a JSON text), ' ', '\n' and the two
\* bytes of a two-byte UTF-8 character; the lines the client sends here hold
\* no supported command, so that handleMessage completes without waiting for
\* I/O and the 'data' handler runs to its end before the next event.
MaxStream == 5

Bytes == {"1", "sp", "nl", "lead", "cont"}

\* well-formed UTF-8: a lead byte is followed by its continuation byte
WellFormed(s) ==
  /\ \A i \in DOMAIN s : s[i] = "lead" => i < Len(s) /\ s[i + 1] = "cont"
  /\ \A i \in DOMAIN s : s[i] = "cont" => i > 1 /\ s[i - 1] = "lead"

Streams ==
  {s \in UNION {[1..n -> Bytes] : n \in 1..MaxStream} : WellFormed(s)}

RECURSIVE toString(_)
\* Buffer.prototype.toString('utf8') of one chunk: a complete two-byte
\* sequence is its character, a byte of an incomplete one is U+FFFD
toString(b) ==
  IF b = <<>> THEN <<>>
  ELSE IF Head(b) = "lead" /\ Len(b) > 1 /\ b[2] = "cont"
  THEN <<"e-acute">> \o toString(Tail(Tail(b)))
  ELSE IF Head(b) \in {"lead", "cont"}
  THEN <<"U+FFFD">> \o toString(Tail(b))
  ELSE <<Head(b)>> \o toString(Tail(b))

\* String.prototype.includes('\n')
HasNewline(str) == \E i \in DOMAIN str : str[i] = "nl"

RECURSIVE split(_)
\* String.prototype.split('\n')
split(str) ==
  IF ~HasNewline(str) THEN <<str>>
  ELSE LET i == CHOOSE k \in DOMAIN str :
                  str[k] = "nl" /\ \A j \in 1..(k - 1) : str[j] # "nl"
       IN <<SubSeq(str, 1, i - 1)>> \o split(SubSeq(str, i + 1, Len(str)))

\* message.trim() is not the empty string
NotBlank(str) == \E i \in DOMAIN str : str[i] # "sp"

\* the messages of split's result: all but the last element
Messages(parts) == SubSeq(parts, 1, Len(parts) - 1)

\* handleMessage: JSON.parse and the command handler.  '1', '11', ... parse
\* to a number, whose action is undefined; anything else does not parse.
handleMessage(message) ==
  IF \E i, j \in DOMAIN message :
       /\ i <= j
       /\ \A k \in DOMAIN message :
            IF i <= k /\ k <= j THEN message[k] = "1" ELSE message[k] = "sp"
  THEN [success |-> FALSE, message |-> "Unknown command: undefined"]
  ELSE [success |-> FALSE, message |-> "Error processing command"]

\* the 'data' handler of handleConnection for a chunk of n bytes
Data(n) ==
  /\ n <= Len(conn.rest)
  /\ LET buffer == conn.buffer \o toString(SubSeq(conn.rest, 1, n))
         parts == split(buffer)
         handled == SelectSeq(Messages(parts), NotBlank)
     IN conn' =
          IF HasNewline(buffer)
          THEN [conn EXCEPT !.rest = SubSeq(conn.rest, n + 1, Len(conn.rest)),
                            !.buffer = parts[Len(parts)],
                            !.lines = @ \o handled,
                            !.written = @ \o [i \in DOMAIN handled |->
                                                handleMessage(handled[i])]]
          ELSE [conn EXCEPT !.rest = SubSeq(conn.rest, n + 1, Len(conn.rest)),
                            !.buffer = buffer]
  /\ UNCHANGED <<registry, info, processes, children, nextId, states, monitors,
                 watchers, timers, tasks, nextSeq, received, replies, emitted, hist,
                 failedStarts, bursts, polls, journal, logs, disk, daemon, now,
                 decided, launch, health, logread>>

FrameNext == \E n \in 1..MaxStream : Data(n)

FrameInit ==
  /\ registry = {}
  /\ info = <<>>
  /\ processes = {}
  /\ children = <<>>
  /\ nextId = 1
  /\ states = <<>>
  /\ monitors = <<>>
  /\ watchers = {}
  /\ timers = <<>>
  /\ tasks = {}
  /\ nextSeq = 1
  /\ received = 0
  /\ replies = <<>>
  /\ emitted = {}
  /\ hist = <<>>
  /\ failedStarts = {}
  /\ bursts = <<>>
  /\ polls = <<>>
  /\ journal = <<>>
  /\ logs = <<>>
  /\ disk = NoFiles
  /\ daemon = [up |-> TRUE, saveTimer |-> FALSE, boots |-> 1]
  /\ now = 0
  /\ decided = NoCall
  /\ launch = NoLaunch
  /\ \E s \in Streams : conn = Connection(s)
  /\ health = NoHealth
  /\ logread = NoRead

SpecFrame == FrameInit /\ [][FrameNext]_vars

\* ------------------------------------------------------ the health check
HEALTH_CHECK_TIMEOUT == 5000
HEALTH_CHECK_RETRY_DELAY == 2000
HEALTH_CHECK_MAX_RETRIES == 3

\* the overall timeouts waitForHealthy is called with (startProcess: 10000),
\* the status codes a probe sees (0: no response: an error or the request's
\* timeout), the time a probe takes and the time a timer fires late by
HealthTimeouts == {0, 2000, 7000, 10000}
StatusCodes == {0, 199, 200, 299, 300, 500}
ProbeTimes == {0, 3000, HEALTH_CHECK_TIMEOUT}
MaxLate == 1
TimerLate == {0, 1000 * MaxLate}

\* (mutant) every response counts as healthy
healthyAnyResponse(statusCode) == statusCode # 0

\* checkHealth: res.statusCode !== undefined && res.statusCode >= 200 &&
\* res.statusCode < 300; healthy: false on 'error' and on 'timeout'
healthy(statusCode) == statusCode # 0 /\ statusCode >= 200 /\ statusCode < 300

\* the head of the while loop of waitForHealthy, reached at time t: another
\* probe is started, or the loop is left and false returned
WhileHead(h, t) ==
  IF t - h.startTime < h.timeout
  THEN [h EXCEPT !.pc = "probe", !.attempts = @ + 1,
                 !.probes = Append(@, [at |-> t, end |-> t, statusCode |-> 0])]
  ELSE [h EXCEPT !.pc = "done", !.returned = "false"]

HealthRest ==
  <<registry, info, processes, children, nextId, states, monitors, watchers,
    timers, tasks, nextSeq, received, replies, emitted, hist, failedStarts,
    bursts, polls, journal, logs, disk, daemon, decided, launch, conn, logread>>

\* waitForHealthy is called: startTime = Date.now(), attempts = 0, and the
\* loop is entered
WaitForHealthy ==
  /\ health.pc = "idle"
  /\ health' = WhileHead([health EXCEPT !.startTime = now], now)
  /\ UNCHANGED now
  /\ UNCHANGED HealthRest

\* checkHealth resolves d ms after the request was made, with a response of
\* some status code, or with an error, or after HEALTH_CHECK_TIMEOUT with
\* 'Request timeout'
CheckHealth(statusCode, d) ==
  /\ health.pc = "probe"
  /\ statusCode = 0 \/ d < HEALTH_CHECK_TIMEOUT
  /\ now' = now + d
  /\ LET n == Len(health.probes)
         h == [health EXCEPT !.probes[n].end = now + d,
                             !.probes[n].statusCode = statusCode]
     IN health' =
          IF healthy(statusCode)
          THEN [h EXCEPT !.pc = "done", !.returned = "true"]
          ELSE IF h.attempts >= HEALTH_CHECK_MAX_RETRIES
          THEN [h EXCEPT !.pc = "done", !.returned = "false"]
          ELSE [h EXCEPT !.pc = "sleep"]
  /\ UNCHANGED HealthRest

\* sleep(HEALTH_CHECK_RETRY_DELAY) resolves and the loop goes round
Sleep(late) ==
  /\ health.pc = "sleep"
  /\ now' = now + HEALTH_CHECK_RETRY_DELAY + late
  /\ health' = WhileHead(health, now')
  /\ UNCHANGED HealthRest

HealthNext ==
  \/ WaitForHealthy
  \/ \E statusCode \in StatusCodes, d \in ProbeTimes : CheckHealth(statusCode, d)
  \/ \E late \in TimerLate : Sleep(late)

HealthInit ==
  /\ registry = {}
  /\ info = <<>>
  /\ processes = {}
  /\ children = <<>>
  /\ nextId = 1
  /\ states = <<>>
  /\ monitors = <<>>
  /\ watchers = {}
  /\ timers = <<>>
  /\ tasks = {}
  /\ nextSeq = 1
  /\ received = 0
  /\ replies = <<>>
  /\ emitted = {}
  /\ hist = <<>>
  /\ failedStarts = {}
  /\ bursts = <<>>
  /\ polls = <<>>
  /\ journal = <<>>
  /\ logs = <<>>
  /\ disk = NoFiles
  /\ daemon = [up |-> TRUE, saveTimer |-> FALSE, boots |-> 1]
  /\ now = 0
  /\ decided = NoCall
  /\ launch = NoLaunch
  /\ conn = NoConn
  /\ \E timeout \in HealthTimeouts : health = [NoHealth EXCEPT !.timeout = timeout]
  /\ logread = NoRead

\* every pending promise of the call is settled in the end: the request
\* resolves on a response, an error or its timeout, the timer fires
SpecHealth == HealthInit /\ [][HealthNext]_vars /\ WF_vars(HealthNext)

\* ------------------------------------------------------ reading the log
\* app.log holds up to MaxLog characters: '1' (any printing character), ' '
\* and '\n'; streamLogs is asked for up to MaxLines lines.
MaxLog == 4
MaxLines == 3
LogChars == {"1", "sp", "nl"}
LogContents == UNION {[1..n -> LogChars] : n \in 0..MaxLog}

\* Array.prototype.slice(start): a negative start counts from the end, and
\* -0 is 0
slice(arr, start) ==
  IF start < 0
  THEN SubSeq(arr, (IF Len(arr) + start > 0 THEN Len(arr) + start ELSE 0) + 1, Len(arr))
  ELSE SubSeq(arr, start + 1, Len(arr))

\* content.split('\n').filter(line => line.trim())
allLines(content) == SelectSeq(split(content), NotBlank)

ReadRest ==
  <<registry, info, processes, children, nextId, states, monitors, watchers,
    timers, tasks, nextSeq, received, replies, emitted, hist, failedStarts,
    bursts, polls, journal, logs, disk, daemon, now, decided, launch, conn,
    health>>

\* streamLogs(processId, lines) up to its await readFile(): an id without a
\* log path gets []
StreamLogs ==
  /\ logread.pc = "idle"
  /\ logread' = IF ~logread.path
                THEN [logread EXCEPT !.pc = "done", !.returned = <<>>]
                ELSE [logread EXCEPT !.pc = "readFile"]
  /\ UNCHANGED ReadRest

\* readFile resolves with the content, or rejects and the catch returns []
ReadFileDone ==
  /\ logread.pc = "readFile"
  /\ logread' =
       [logread EXCEPT
          !.pc = "done",
          !.returned = IF logread.readable
                       THEN slice(allLines(logread.content), -logread.lines)
                       ELSE <<>>]
  /\ UNCHANGED ReadRest

ReadNext == StreamLogs \/ ReadFileDone

ReadInit ==
  /\ registry = {}
  /\ info = <<>>
  /\ processes = {}
  /\ children = <<>>
  /\ nextId = 1
  /\ states = <<>>
  /\ monitors = <<>>
  /\ watchers = {}
  /\ timers = <<>>
  /\ tasks = {}
  /\ nextSeq = 1
  /\ received = 0
  /\ replies = <<>>
  /\ emitted = {}
  /\ hist = <<>>
  /\ failedStarts = {}
  /\ bursts = <<>>
  /\ polls = <<>>
  /\ journal = <<>>
  /\ logs = <<>>
  /\ disk = NoFiles
  /\ daemon = [up |-> TRUE, saveTimer |-> FALSE, boots |-> 1]
  /\ now = 0
  /\ decided = NoCall
  /\ launch = NoLaunch
  /\ conn = NoConn
  /\ health = NoHealth
  /\ \E path \in BOOLEAN, readable \in BOOLEAN, content \in LogContents,
        lines \in 0..MaxLines :
       logread = [NoRead EXCEPT !.path = path, !.readable = readable,
                                !.content = content, !.lines = lines]

SpecRead == ReadInit /\ [][ReadNext]_vars

\* ------------------------------------------------ the granted restart
\* Programs with the default restart policy are started; their children exit
\* with any code at any moment and the exit handler respawns them, while a
\* client that waits for each reply sends stop and delete commands.
RespawnCommands(k) ==
  {[action |-> "start", target |-> 0, cfg |-> CfgPlain]}
  \cup {[action |-> a, target |-> i, cfg |-> NoCfg] :
          a \in {"stop", "delete"}, i \in 1..k}

RespawnCommand ==
  /\ received < MaxOps
  /\ \A t \in tasks : ~IsCommand(t)
  /\ \E cmd \in RespawnCommands(nextId - 1) : DataEvent(<<cmd>>)

RespawnNext ==
  \/ RespawnCommand
  \/ \E t \in tasks : nextId <= MaxIds /\ StartSpawn(t)
  \/ \E t \in tasks : StartAttach(t)
  \/ \E t \in tasks : StopWaitDone(t)
  \/ \E id \in 1..MaxIds, code \in ExitCodes :
       ChildExitBody(id, code, now) /\ now' = now
  \/ \E t \in tasks : ExitCrashRecorded(t)
  \/ \E t \in tasks : ExitSleepDone(t)

SpecRespawn == Init /\ [][RespawnNext]_vars

\* ------------------------------------------------ overlapping restarts
\* One program is started, with a watcher and both limits; restart commands,
\* 'threshold-exceeded' and 'change' events then arrive at any moment, also
\* while an earlier restartProcess of the entry is suspended.  The stopped
\* child exits with code 0 or not at all before the 10 s timeout.
RestartAgain(id) ==
  /\ nextSeq > 1
  /\ nextSeq <= MaxOps + 1
  /\ id < nextId
  /\ \A t \in tasks : ~IsCommand(t)
  /\ DataEvent(<<[action |-> "restart", target |-> id, cfg |-> NoCfg]>>)

OverlapNext ==
  \/ StartLimited
  \/ \E id \in 1..(MaxIds + 1) : RestartAgain(id)
  \/ \E t \in tasks : nextId <= MaxIds + 1 /\ StartSpawn(t)
  \/ \E t \in tasks : StartAttach(t)
  \/ \E t \in tasks : StopWaitDone(t)
  \/ \E t \in tasks : StopUnwatchDone(t)
  \/ \E id \in 1..(MaxIds + 1), type \in {"memory", "cpu"} :
       nextSeq <= MaxOps + 1 /\ ThresholdExceeded(id, type)
  \/ \E id \in 1..(MaxIds + 1) : FsEvent(id)
  \/ \E id \in 1..(MaxIds + 1) :
       nextSeq <= MaxOps + 1 /\ TimerFireBody(id) /\ UNCHANGED <<bursts, now>>
  \/ \E id \in DOMAIN children : children[id].killed /\ CleanExit(id)

SpecOverlap == Init /\ [][OverlapNext]_vars

TypeOK ==
  /\ registry \subseteq DOMAIN info
  /\ processes \subseteq DOMAIN children
  /\ \A id \in DOMAIN states : Len(states[id].crashes) <= 1

\* ======================================================= claims, C1..C10

LiveStatuses == {"starting", "running", "stopping"}

\* C1: every entry held in the registry has pid > 0 if and only if its status
\* is one of starting, running, stopping.
C1_PidIffLive ==
  \A id \in registry : (info[id].pid > 0) <=> (info[id].status \in LiveStatuses)

\* C4: in the step in which startProcess fails after registry.add, the entry is
\* absent from the registry when the error is reported, and every other entry
\* of the registry is as it was.
C4_FailedStartRemoved ==
  [][\A id \in failedStarts' \ failedStarts :
       /\ id \notin registry'
       /\ registry' = registry \ {id}
       /\ \A j \in registry' : info'[j] = info[j]]_vars

\* C4 witness: a start failed after its child was spawned (a later step of
\* start threw) while another entry was in the registry.
C4_Witness ==
  \E id \in failedStarts : id \in DOMAIN children /\ registry # {}

\* the failed exits of id's restart chain within the crash window that ends
\* with the chain's latest failed exit
WindowFails(id) ==
  LET f == hist[id].fails
  IN Cardinality({i \in DOMAIN f : f[Len(f)] - f[i] < CRASH_LOOP_WINDOW * 1000})

FailedExit(id) == hist[id].exit \in {"fail", "signal"}

PolicyDecided(id) ==
  ~ \E t \in tasks : t.kind = "exit" /\ t.id = id /\ t.pc = "exit_crash"

\* C2: when an entry's child fails for the sixth time within 60 s, counted
\* across the automatic restarts of the entry, that exit results in a
\* crash-loop event and the entry is not automatically restarted again.
C2_CrashLoopOnSixth ==
  \A id \in DOMAIN hist :
    (FailedExit(id) /\ WindowFails(id) >= 6 /\ PolicyDecided(id)) =>
      /\ \E e \in emitted : e.type = "crash-loop" /\ e.id = id
      /\ ~ \E t \in tasks : t.kind = "exit" /\ t.id = id

\* C3: the delay computed before the k-th automatic restart of an entry is
\* min(min_delay * 2^(k-1), max_delay): 1000, 2000, 4000 ms with the defaults.
C3_BackoffSchedule ==
  \A e \in emitted :
    e.type = "restart-scheduled" =>
      e.delay = Min(DEFAULT_RESTART_DELAY * Pow2(hist[e.id].gen), DEFAULT_MAX_DELAY)

\* C5: a 'threshold-exceeded' event of type memory is emitted only at a sample
\* that ends a run of at least 3 consecutive samples with memory at or above
\* the limit, one of type cpu only at a sample that ends a run of at least 5
\* consecutive samples whose rolling mean of the last three cpu samples is at
\* or above the limit; a sample below the limit puts the respective counter
\* back to zero (the counter never exceeds the length of the current run).
C5_ThresholdAfterRun ==
  \A id \in DOMAIN polls :
    /\ polls[id].memEv => polls[id].memRun >= MEMORY_CHECK_CONSECUTIVE
    /\ polls[id].cpuEv => polls[id].cpuRun >= CPU_CHECK_CONSECUTIVE
    /\ id \in DOMAIN monitors =>
         /\ monitors[id].memoryExceededCount <= polls[id].memRun
         /\ monitors[id].cpuExceededCount <= polls[id].cpuRun

C5_Witness ==
  \E id \in DOMAIN polls, j \in DOMAIN polls :
    /\ polls[id].memEv /\ polls[id].memRun = MEMORY_CHECK_CONSECUTIVE
    /\ polls[j].cpuEv /\ polls[j].cpuRun >= CPU_CHECK_CONSECUTIVE

\* C5 as stated: the runs are of samples above the limit
C5_AsStated ==
  \A id \in DOMAIN polls :
    /\ polls[id].memEv => polls[id].memAbove >= MEMORY_CHECK_CONSECUTIVE
    /\ polls[id].cpuEv => polls[id].cpuAbove >= CPU_CHECK_CONSECUTIVE

\* C6: a burst of N >= 1 watcher events, each less than 500 ms after the
\* previous one, produces exactly one 'change' event, and that event is
\* emitted after the last event of the burst: while the burst's timeout is
\* pending no 'change' has been emitted for it and the timeout is due 500 ms
\* after the burst's latest event; once no timeout is pending exactly one
\* 'change' has been emitted, 500 ms after the burst's last event.
C6_OneChangePerBurst ==
  \A id \in DOMAIN bursts :
    IF id \in DOMAIN timers
    THEN /\ bursts[id].changes = 0
         /\ timers[id] = bursts[id].last + WATCH_DEBOUNCE_DELAY
    ELSE /\ bursts[id].changes = 1
         /\ bursts[id].at = bursts[id].last + WATCH_DEBOUNCE_DELAY

C6_Witness ==
  \E id \in DOMAIN bursts :
    /\ bursts[id].n >= 3
    /\ bursts[id].changes = 1
    /\ id \notin DOMAIN timers

ExpectedReason(cause) ==
  CASE cause = "restart" -> "manual"
    [] cause = "memory" -> "memory"
    [] cause = "cpu" -> "cpu"
    [] cause = "change" -> "file-change"
    [] cause = "exit" -> "crash"
    [] OTHER -> "none"

\* C7: the entry produced by a restart records why it was restarted: file-change
\* for a watcher change event, memory or cpu for threshold-exceeded, crash for
\* an automatic restart, manual only for a restart command.
C7_RestartReason ==
  \A id \in registry :
    info[id].lastRestartReason # "none" =>
      info[id].lastRestartReason = ExpectedReason(hist[id].cause)

Executing(t) == t.pc # "dispatch"

\* C8: at every moment at most one control command is executing.
C8_OneCommandAtATime ==
  Cardinality({t \in tasks : IsCommand(t) /\ Executing(t)}) <= 1

\* C9: the replies on the connection are written in the order in which the
\* requests were received.
C9_RepliesInOrder ==
  \A i, j \in DOMAIN replies : i < j => replies[i].req < replies[j].req

\* C10: no handler of a background outcome (threshold-exceeded, file change,
\* child exit) mutates the registry or a child while a command or another
\* background handler is suspended in the middle of its own operation.
C10_BackgroundSerialized ==
  [][~ /\ \E t \in (tasks \ tasks') \cup (tasks' \ tasks) : IsBackground(t)
       /\ registry' # registry \/ info' # info \/ children' # children
       /\ \E u \in tasks \cap tasks' : Executing(u)]_vars

\* C11: no two registry entries whose status is not stopped have the same
\* name; a start that would create a second live entry with an existing name
\* does not leave both in the registry.
C11_UniqueLiveNames ==
  \A i, j \in registry :
    (i # j /\ info[i].status # "stopped" /\ info[j].status # "stopped")
      => info[i].name # info[j].name

\* C12: each id in the registry is associated with at most one live child:
\* no start, restart, crash restart or restore spawns a child for an id while
\* an earlier child spawned for that id is still alive.
C12_OneChildPerId ==
  \A id \in registry : id \in DOMAIN children => children[id].orphans = 0

C12_Witness ==
  \E id \in registry, j \in DOMAIN children :
    /\ hist[id].cause \in {"restart", "exit"}
    /\ id \in DOMAIN children /\ children[id].alive
    /\ j # id /\ children[j].alive

\* C13: when stopProcess's wait for the child ends with the child still
\* alive (the 10 s have passed), a SIGKILL is sent to it before the teardown;
\* when the child has exited, no SIGKILL is sent.
C13_ForceKillAfterWait ==
  [][\A t \in tasks \ tasks' :
       t.pc = "stop_wait" =>
         (children[t.id].alive <=> children'[t.id].sigkill)]_vars

IsPrefix(p, q) == Len(p) <= Len(q) /\ \A i \in 1..Len(p) : p[i] = q[i]

\* C20: for every failed child exit the exit handler first completes the
\* append to the crash journal (the record is in the file, unless the journal's
\* I/O failed, which is logged and adds nothing), then evaluates the restart
\* policy, and only after the policy's delay begins the respawn.
C20_JournalPolicyRespawn ==
  \A id \in DOMAIN journal :
    /\ \/ IsPrefix(journal[id].trail, <<"append", "policy", "respawn">>)
       \/ IsPrefix(journal[id].trail, <<"append-failed", "policy", "respawn">>)
    /\ journal[id].records =
         Cardinality({i \in DOMAIN journal[id].trail : journal[id].trail[i] = "append"})
    /\ \A t \in tasks : (t.kind = "exit" /\ t.id = id /\ t.pc = "exit_sleep")
                            => journal[id].trail[Len(journal[id].trail)] = "policy"

C20_Witness ==
  \E id \in DOMAIN journal :
    /\ journal[id].trail = <<"append", "policy", "respawn">>
    /\ \E j \in registry : hist[j].cause = "exit"

\* C20 as stated: the crash record is in the journal before the policy is
\* evaluated
C20_AsStated ==
  \A id \in DOMAIN journal :
    IsPrefix(journal[id].trail, <<"append", "policy", "respawn">>)

\* C18: when an append brings app.log to 10 MiB or more, the rotation leaves the
\* former app.log in app.log.1, each former app.log.N (1 <= N <= 4) in
\* app.log.(N+1), and a fresh app.log open; every chunk the entry writes is
\* appended to the current app.log.
C18_RotationShiftsByOne ==
  [][\A id \in DOMAIN logs :
       LET old == logs[id]
           new == logs'[id]
       IN /\ new.rotations > old.rotations =>
               /\ new.files[1] = old.files[0]
               /\ \A N \in 1..(LOG_MAX_FILES - 1) : new.files[N + 1] = old.files[N]
               /\ new.files[0] > old.created
               /\ new.stream = "open"
          /\ new.produced > old.produced =>
               \/ new.rotations > old.rotations
               \/ new.size = old.size + (new.produced - old.produced)]_vars

\* C19: after each append app.log holds at most 10 MiB plus the appended record,
\* and once the entry has written enough output to overflow LOG_MAX_FILES times
\* exactly LOG_MAX_FILES historical files app.log.1 .. app.log.5 remain.
Historical(l) == {n \in 1..LOG_MAX_FILES : l.files[n] # 0}

MaxChunk == CHOOSE n \in ChunkSizes : \A m \in ChunkSizes : m <= n

C19_SizeAndRetention ==
  \A id \in DOMAIN logs :
    /\ logs[id].size <= LOG_MAX_SIZE + MaxChunk
    /\ logs[id].produced >= LOG_MAX_FILES * (LOG_MAX_SIZE + MaxChunk)
         => Cardinality(Historical(logs[id])) = LOG_MAX_FILES
\* C14: after the daemon is killed and a fresh daemon boots, an entry that the
\* snapshot recorded as running is respawned with restart_count equal to the
\* value in the snapshot.
C14_RestoreKeepsRestartCount ==
  \A id \in registry :
    hist[id].cause = "restore" /\ info[id].status = "running"
      => info[id].restartCount = hist[id].saved

C16_StateFileComplete == disk.state.kind \in {"absent", "text"}

\* C17: when loadState returns, state.json is absent or parses cleanly into a
\* Snapshot (a version and an array of entries).
LoadPcs == {"load_exists", "load_read", "load_backup"}

Loading(ts) == \E t \in ts : t.pc \in LoadPcs

C17_LoadLeavesSnapshotOrNothing ==
  [][Loading(tasks) /\ ~Loading(tasks') /\ daemon'.up
       => \/ disk'.state.kind = "absent"
          \/ disk'.state.kind = "text" /\ Valid(disk'.state.json)]_vars

\* ====================================================== claims, C21..C30

\* C21: after a stop command for a name has replied success, the next stop
\* command for the same name, with no start command in between, is refused.
C21_SecondStopRefused ==
  \A i, j \in DOMAIN replies :
    /\ i < j
    /\ replies[i].action = "stop" /\ replies[j].action = "stop"
    /\ replies[i].name = CfgPlain.name /\ replies[j].name = CfgPlain.name
    /\ replies[i].success
    /\ \A k \in (i + 1)..(j - 1) : replies[k].action # "start"
    => ~replies[j].success

\* C28: when a stop command with target all replies, no entry of the registry
\* has a live child.
C28_StopAllStopsEvery ==
  [][/\ Len(replies') > Len(replies)
     /\ replies'[Len(replies')].action = "stop"
     /\ replies'[Len(replies')].name = "all"
     => \A id \in registry' : id \in DOMAIN children' => ~children'[id].alive]_vars

EventTypes(ev) == {e.type : e \in ev}

C30_CleanExitLeavesBook ==
  decided.id # 0 /\ decided.known /\ decided.clean
    => /\ ~decided.grant
       /\ decided.after = decided.before
       /\ decided.ev = {}

\* an entry whose startProcess has returned to its caller
Settled(ts, id) == \A t \in ts : ~(t.nid = id /\ t.pc = "start_attach")

Denied(ev) == {e.id : e \in {x \in ev : x.type \in {"crash-loop", "max-restarts"}}}
               \cap {id \in DOMAIN hist : hist[id].exit \in {"fail", "signal"}}

\* a stop or delete command has taken the entry up
TakenUp(ts, rs, id) ==
  \/ \E t \in ts : t.kind \in {"stop", "delete"} /\ t.id = id
  \/ \E i \in DOMAIN rs :
       rs[i].action \in {"stop", "delete"} /\ rs[i].target = id /\ rs[i].success

\* C22: an entry whose restart the policy has denied after a failed exit is in
\* the registry with status errored and without a tracked or live child, as
\* long as no stop or delete command has taken it up; a delete command for
\* it then finds it and removes it.
C22_DeniedStaysErrored ==
  [][/\ \A id \in Denied(emitted') :
          ~TakenUp(tasks \cup tasks', replies', id)
            => /\ id \in registry'
               /\ info'[id].status = "errored"
               /\ id \notin processes'
               /\ ~children'[id].alive
     /\ \A id \in Denied(emitted) :
          /\ ~TakenUp(tasks, replies, id)
          /\ Len(replies') > Len(replies)
          /\ replies'[Len(replies')].action = "delete"
          /\ replies'[Len(replies')].target = id
          => replies'[Len(replies')].success /\ id \notin registry']_vars

\* C22 witness: a denied entry is in the registry, errored, while a later
\* status command has been answered and nothing has taken the entry up.
C22_Witness ==
  \E id \in Denied(emitted) :
    /\ ~TakenUp(tasks, replies, id)
    /\ id \in registry /\ info[id].status = "errored"
    /\ \E i \in DOMAIN replies : replies[i].action = "status" /\ replies[i].req > 1

\* C24: when a save command replies success, state.json holds the snapshot of
\* the registry as it is at that moment.
C24_SaveRepliesAfterWrite ==
  [][/\ Len(replies') > Len(replies)
     /\ replies'[Len(replies')].action = "save"
     /\ replies'[Len(replies')].success
     => /\ disk'.state.kind = "text"
        /\ "of" \in DOMAIN disk'.state
        /\ disk'.state.of = getAll(registry', info')]_vars

\* nothing is running or pending in the daemon: no command or handler in
\* flight, no save being written, no debounce timeout armed
Quiescent == daemon.up /\ tasks = {} /\ ~daemon.saveTimer

\* C25: once the daemon is quiescent, state.json holds a snapshot equal to
\* the registry (no file standing for an empty registry).
C25_QuiescentSnapshotCurrent ==
  Quiescent
    => IF disk.state.kind = "absent" THEN registry = {}
       ELSE /\ disk.state.kind = "text"
            /\ "of" \in DOMAIN disk.state
            /\ disk.state.of = getAll(registry, info)

\* C26: a daemon that has completed its bootstrap is the only one that has,
\* daemon.pid holds its pid and the socket file is the one it listens on.
C26_SingleDaemon ==
  \A d \in Daemons :
    launch.pc[d] = "listening"
      => /\ launch.pidFile = d
         /\ launch.socket = d
         /\ \A e \in Daemons \ {d} : launch.pc[e] # "listening"

\* C27: when the whole stream has arrived, however it was cut, the server has
\* handled exactly the stream's newline-terminated lines that are not blank, in
\* order, holds the unterminated tail in its buffer, and has written one
\* reply per handled line: 'Unknown command' for a JSON text without a
\* supported action, an error reply for a line that is not JSON.
C27_FramingByNewline ==
  conn.rest = <<>>
    => LET parts == split(toString(conn.stream))
           expected == SelectSeq(Messages(parts), NotBlank)
       IN /\ conn.lines = expected
          /\ conn.buffer = parts[Len(parts)]
          /\ conn.written = [i \in DOMAIN expected |-> handleMessage(expected[i])]

\* ====================================================== claims, C31..C40

C32_WarningAboveEighty ==
  \A id \in DOMAIN polls :
    id \in DOMAIN monitors /\ monitors[id].memoryLimit > 0
      => (polls[id].memWarn <=> polls[id].memHigh)

\* C33: waitForHealthy makes at most 3 probes, a probe is started no earlier
\* than 2 s after the previous one resolved and only while less than the
\* overall timeout has elapsed since the call, no probe follows one that saw
\* a 2xx status; the call returns true exactly when a probe it made saw a 2xx
\* status and false otherwise, and it always returns.
C33_WaitForHealthy ==
  /\ [](LET p == health.probes
            made == IF health.pc = "probe" THEN Len(p) - 1 ELSE Len(p)
        IN /\ Len(p) <= HEALTH_CHECK_MAX_RETRIES
           /\ health.attempts = Len(p)
           /\ \A i \in DOMAIN p : p[i].at - health.startTime < health.timeout
           /\ \A i \in 1..(Len(p) - 1) :
                /\ p[i + 1].at - p[i].end >= HEALTH_CHECK_RETRY_DELAY
                /\ ~(p[i].statusCode \in 200..299)
           /\ health.pc # "done" => health.returned = "none"
           /\ health.pc = "done" =>
                /\ health.returned \in {"true", "false"}
                /\ health.returned = "true"
                     <=> \E i \in 1..made : p[i].statusCode \in 200..299)
  /\ <>(health.pc = "done")

C33_Witness ==
  /\ health.pc = "done" /\ health.returned = "true"
  /\ Len(health.probes) = HEALTH_CHECK_MAX_RETRIES
  /\ health.probes[3].end - health.startTime > health.timeout

\* C34: the exit of a child whose entry is in stopping leaves the entry, as
\* long as it is in the registry, in stopping or stopped and never in errored,
\* and the exit handler of a child that stopProcess has signalled is never
\* granted a restart by handleExit (it never reaches the sleep before the
\* respawn).
C34_StoppingExitNotErrored ==
  [][/\ \A id \in registry \cap DOMAIN children :
          (info[id].status = "stopping" /\ children[id].alive
             /\ ~children'[id].alive /\ id \in registry')
            => info'[id].status \in {"stopping", "stopped"}
     /\ \A t \in tasks' \ tasks :
          (t.kind = "exit" /\ t.pc = "exit_sleep") => ~children[t.id].killed]_vars

\* C35: a finished streamLogs(id, n) has returned [] when the id has no log
\* path or the file cannot be read, and otherwise the last min(n, k) of the k
\* lines of app.log that are not blank, in file order: never more than n
\* lines, and none for n = 0.
C35_LastLines ==
  logread.pc = "done" =>
    IF ~logread.path \/ ~logread.readable THEN logread.returned = <<>>
    ELSE LET kept == SelectSeq(split(logread.content), NotBlank)
             k == Len(kept)
             m == IF logread.lines < k THEN logread.lines ELSE k
         IN /\ logread.returned = SubSeq(kept, k - m + 1, k)
            /\ Len(logread.returned) <= logread.lines

\* C36: a failed exit of the child of a registered entry that is not in
\* stopping sets the status to errored and starts the exit handler's
\* recordCrash; and when recordCrash is over for a child that no stopProcess
\* has signalled or is waiting for, with the entry still registered, the
\* crash file was written to and handleExit decides: the handler is granted
\* the restart, or 'crash-loop' or 'max-restarts' is emitted for the id.
C36_FailedExitDecided ==
  [][/\ \A id \in registry \cap DOMAIN children :
          (children[id].alive /\ ~children'[id].alive
             /\ hist'[id].fails # hist[id].fails /\ info[id].status # "stopping")
            => /\ info'[id].status = "errored"
               /\ \E t \in tasks' \ tasks : t.kind = "exit" /\ t.id = id
     /\ \A t \in tasks \ tasks' :
          (/\ t.kind = "exit" /\ t.pc = "exit_crash"
           /\ t.id \in registry /\ ~children[t.id].killed
           /\ ~\E s \in tasks : s.id = t.id /\ s.pc \in {"stop_wait", "stop_unwatch"})
            => /\ Len(JournalOf(t.id).trail) < Len(journal'[t.id].trail)
               /\ \/ \E u \in tasks' : u.seq = t.seq /\ u.pc = "exit_sleep"
                  \/ \E e \in emitted' :
                       e.id = t.id /\ e.type \in {"crash-loop", "max-restarts"}]_vars

\* C37: once a stop or delete command for an id has been answered with
\* success, the exit handler of that id's child spawns no child: it never
\* goes on from its sleep to startProcess's spawn.
C37_NoSpawnAfterDelete ==
  [][\A t \in tasks :
       (/\ t.kind = "exit"
        /\ \E i \in DOMAIN replies :
             /\ replies[i].action \in {"stop", "delete"}
             /\ replies[i].target = t.id /\ replies[i].success)
         => ~\E u \in tasks' :
               u.seq = t.seq /\ u.pc = "start_attach" /\ t.pc # "start_attach"]_vars

\* C38: restartProcess calls that overlap replace the entry by one new entry
\* with one live child: no two entries of the registry hold the same config
\* (the client starts each program once), and no two of them have a live
\* child.
C38_OneReplacement ==
  /\ \A a \in registry, b \in registry : info[a].config = info[b].config => a = b
  /\ Cardinality({id \in registry : id \in DOMAIN children /\ children[id].alive}) <= 1

\* C39: every live child that was spawned belongs to an entry that is in the
\* registry and in the id-to-child map.
C39_LiveChildRegistered ==
  \A id \in DOMAIN children :
    children[id].alive => id \in registry /\ id \in processes

\* C40: restart state, monitor, watcher and open log stream exist only for
\* ids that are in the registry, and a step that removes an id from the
\* registry leaves none of them behind for it.
C40_AuxiliariesReleased ==
  /\ [](\A id \in DOMAIN states \cup DOMAIN monitors \cup watchers
                    \cup {i \in DOMAIN logs : logs[i].stream = "open"} :
          id \in registry \/ \E t \in tasks : t.pc = "start_attach" /\ t.nid = id)
  /\ [][\A id \in registry \ registry' :
          /\ id \notin DOMAIN states' /\ id \notin DOMAIN monitors'
          /\ id \notin watchers'
          /\ id \in DOMAIN logs' => logs'[id].stream # "open"]_vars
====
